---- MODULE Spec2Model ----
(***************************************************************************)
(* Model of the zookeeper-operator reconcile loop                          *)
(* (pkg/cluster/reconcile.go, pkg/cluster/member.go,                       *)
(*  pkg/util/zookeeperutil/member.go, pkg/util/zookeeperutil/client.go,    *)
(*  pkg/util/k8sutil/k8sutil.go).                                          *)
(*                                                                         *)
(* One reconcile pass is one action.  Calls whose result the operator      *)
(* does not control (the ensemble client, pod creation and deletion, map   *)
(* iteration order) are modelled as operators that return the SET of       *)
(* their possible outcomes; a pass is then the set of outcomes of          *)
(* reconcile(), and the action picks one of them.                          *)
(***************************************************************************)
EXTENDS Integers, Sequences, FiniteSets, TLC

VARIABLES
    spec,       \* c.cluster.Spec: [Size, Version]
    members,    \* c.members: the MemberSet (set of member names)
    pods,       \* running pods of the cluster: name -> recorded version
    zkServers,  \* live configuration of the ensemble: set of server lines
    status,     \* c.status
    pass,       \* record of the last reconcile pass (history variable)
    events,     \* number of events from outside the operator so far: pod
                \* crashes, foreign pods, modifications and failed calls
    ret,        \* the last call of a function made on its own: its
                \* arguments and what it returned (history variable)
    resourceVersion,    \* c.cluster.ResourceVersion
    event       \* the last cluster event handled (history variable)

vars == <<spec, members, pods, zkServers, status, pass, events, ret,
          resourceVersion, event>>

----------------------------------------------------------------------------
(* Bounds *)

MaxId == 4          \* member IDs range over 1..MaxId (must stay below 10)
MaxEvents == 2      \* events from outside the operator in one run
MaxMembers == 5     \* membership sizes the quorum decision is tried on
MaxUnit == 3        \* member names the functions called on their own are given

(* Program values *)

ClusterName == "c"
Namespace == "default"
Versions == {"3.4.0", "3.5.3"}
SpecSizes == {1, 2, 3, 7}      \* values of spec.Size
SeedSizes == {1, 2, 3}         \* spec.Size of a new cluster

IDs == 1..MaxId
Names == {<<ClusterName, i>> : i \in IDs}

Nil == "nil"
NoMember == <<"", 0>>
ZkErrors == {"ConnectError", "ProtocolError"}
ErrLostQuorum == "LostQuorum"

----------------------------------------------------------------------------
(* Generic helpers *)

Min(S) == CHOOSE x \in S : \A y \in S : x <= y

Max(S) == CHOOSE x \in S : \A y \in S : x >= y

Range(s) == {s[i] : i \in DOMAIN s}

\* all orders in which the elements of a finite set can be enumerated
RECURSIVE Perms(_)
Perms(S) ==
    IF S = {} THEN {<<>>}
    ELSE UNION {{<<x>> \o p : p \in Perms(S \ {x})} : x \in S}

\* the elements of a finite set in one order
RECURSIVE SetToSeq(_)
SetToSeq(S) ==
    IF S = {} THEN <<>>
    ELSE LET x == CHOOSE y \in S : TRUE IN <<x>> \o SetToSeq(S \ {x})

\* a function with one key fewer
Without(f, k) == [x \in (DOMAIN f) \ {k} |-> f[x]]

\* a function with one key set
With(f, k, v) == [x \in (DOMAIN f) \cup {k} |-> IF x = k THEN v ELSE f[x]]

----------------------------------------------------------------------------
(* Membership model: zookeeperutil.Member / zookeeperutil.MemberSet.       *)
(* A member name "<clusterName>-<id>" is the pair <<clusterName, id>>; a   *)
(* MemberSet (map name -> *Member, the Member holding only the name and    *)
(* the cluster's namespace) is the set of its keys.                        *)

clusterNameFromMemberName(mn) == mn[1]

Addr(m) == <<m, clusterNameFromMemberName(m), Namespace, "svc">>

ID(m) == m[2]

Size(ms) == Cardinality(ms)

Diff(ms, other) == {n \in ms : n \notin other}

IsEqual(ms, other) ==
    IF Size(ms) # Size(other) THEN FALSE
    ELSE \A n \in ms : n \in other

\* the members PickOne can return: any one (map iteration order)
PickOne(ms) == ms

Add(ms, m) == ms \cup {m}

Remove(ms, name) == ms \ {name}

MaxMemberID(ms) == IF ms = {} THEN 0 ELSE Max({0} \cup {ID(m) : m \in ms})

\* "host:2181" of every member, in map iteration order (one of them)
ClientHostList(ms) ==
    LET order == SetToSeq(ms)
    IN  [i \in 1..Size(ms) |-> <<Addr(order[i]), 2181>>]

\* "server.<id>=<addr>:2888:3888:<role>;<addr>:2181"
ServerLine(m, role) ==
    [id |-> ID(m), peer |-> Addr(m), role |-> role, client |-> Addr(m)]

\* sort.Strings on server lines: the lines differ first in the ID digit
\* (IDs below 10), then in the member name, then in the role
LineLess(a, b) ==
    \/ a.id < b.id
    \/ a.id = b.id /\ a.role = "observer" /\ b.role = "participant"

SortStrings(s) == SortSeq(s, LineLess)

ClusterConfig(ms) ==
    LET order == SetToSeq(ms)
    IN  SortStrings([i \in 1..Size(ms) |-> ServerLine(order[i], "participant")])

\* The MemberSet as the map it is: name -> Member, a Member holding its
\* name and its namespace.  The operations above are these on the keys.
Member(name, namespace) == [Name |-> name, Namespace |-> namespace]

NewMemberSet(names, namespace) == [n \in names |-> Member(n, namespace)]

MemberSet_Size(ms) == Cardinality(DOMAIN ms)

MemberSet_Diff(ms, other) ==
    [n \in {k \in DOMAIN ms : k \notin DOMAIN other} |-> ms[n]]

\* an equality that leaves out the comparison of the sizes
MemberSet_IsEqual_NoSize(ms, other) ==
    \A n \in DOMAIN ms : n \in DOMAIN other

MemberSet_IsEqual(ms, other) ==
    IF MemberSet_Size(ms) # MemberSet_Size(other) THEN FALSE
    ELSE \A n \in DOMAIN ms : n \in DOMAIN other

----------------------------------------------------------------------------
(* Strings.  Where a claim is about the text of a name or of a server line *)
(* the strings are the program's own, and the library calls the program    *)
(* makes on them are these.                                                *)

Digits == "0123456789"

\* the bytes names and server lines are made of, in byte order
Alphabet == "-.0123456789:;=abcdefghijklmnopqrstuvwxyz"

Char(s, i) == SubSeq(s, i, i)

Ord(c) == CHOOSE i \in 1..Len(Alphabet) : Char(Alphabet, i) = c

\* strconv.Itoa / %d, for n >= 0
RECURSIVE Itoa(_)
Itoa(n) ==
    IF n < 10 THEN Char(Digits, n + 1)
    ELSE Itoa(n \div 10) \o Char(Digits, (n % 10) + 1)

IsDigit(c) == \E i \in 1..Len(Digits) : Char(Digits, i) = c

DigitVal(c) == (CHOOSE i \in 1..Len(Digits) : Char(Digits, i) = c) - 1

RECURSIVE DecimalValue(_)
DecimalValue(s) ==
    IF s = "" THEN 0
    ELSE 10 * DecimalValue(SubSeq(s, 1, Len(s) - 1)) + DigitVal(Char(s, Len(s)))

\* strconv.Atoi on a string without a sign: the number, or 0 and an error
Atoi(s) ==
    IF s = "" \/ \E i \in 1..Len(s) : ~IsDigit(Char(s, i))
    THEN [n |-> 0, err |-> "syntax"]
    ELSE [n |-> DecimalValue(s), err |-> Nil]

\* the places where the one-byte string sep occurs in s
Occurrences(s, sep) == {i \in 1..Len(s) : Char(s, i) = sep}

\* strings.Split(s, sep), sep one byte
RECURSIVE Split(_, _)
Split(s, sep) ==
    IF Occurrences(s, sep) = {} THEN <<s>>
    ELSE LET i == Min(Occurrences(s, sep))
         IN  <<SubSeq(s, 1, i - 1)>> \o Split(SubSeq(s, i + 1, Len(s)), sep)

\* strings.LastIndex(s, sep), sep one byte: a 0-based index, or -1
LastIndex(s, sep) ==
    IF Occurrences(s, sep) = {} THEN -1 ELSE Max(Occurrences(s, sep)) - 1

\* byte-wise comparison of two strings, as sort.Strings compares them
RECURSIVE StringLess(_, _)
StringLess(a, b) ==
    IF b = "" THEN FALSE
    ELSE IF a = "" THEN TRUE
    ELSE IF Head(a) # Head(b) THEN Ord(Head(a)) < Ord(Head(b))
    ELSE StringLess(Tail(a), Tail(b))

\* The members' own functions on the text of the name.  A member name
\* outside the format "clusterName-ID" makes Addr panic.
Member_clusterNameFromMemberName(mn) ==
    LET i == LastIndex(mn, "-")
    IN  IF i = -1 THEN "panic" ELSE SubSeq(mn, 1, i)

Member_Addr(m) ==
    m.Name \o "." \o Member_clusterNameFromMemberName(m.Name) \o "."
           \o m.Namespace \o ".svc"

\* the error of Atoi is dropped
Member_ID(m) ==
    LET sSplit == Split(m.Name, "-")
    IN  Atoi(sSplit[Len(sSplit)]).n

\* an allocation by the number of members instead of their highest ID
MemberSet_MaxMemberID_BySize(ms) == MemberSet_Size(ms)

\* maxID starts at 0 and is raised by every member with a higher ID
MemberSet_MaxMemberID(ms) ==
    LET ids == {Member_ID(ms[n]) : n \in DOMAIN ms}
    IN  IF \E i \in ids : i > 0 THEN Max(ids) ELSE 0

\* Cluster.newMember, on the cluster's name, namespace and membership
Cluster_newMember(name, namespace, ms) ==
    Member(name \o "-" \o Itoa(MemberSet_MaxMemberID(ms) + 1), namespace)

\* ClientHostList of ms when the map is iterated in the order given: the
\* entries are appended in that order and returned as they are
MemberSet_ClientHostList(ms, order) ==
    [i \in 1..Len(order) |-> Member_Addr(ms[order[i]]) \o ":2181"]

\* the server line ClusterConfig formats for a member
Member_ServerLine(m) ==
    "server." \o Itoa(Member_ID(m)) \o "=" \o Member_Addr(m)
              \o ":2888:3888:participant;" \o Member_Addr(m) \o ":2181"

\* a serialization that leaves the lines in the order of the iteration
MemberSet_ClusterConfig_Unsorted(ms, order) ==
    [i \in 1..Len(order) |-> Member_ServerLine(ms[order[i]])]

\* ClusterConfig of ms when the map is iterated in the order given
MemberSet_ClusterConfig(ms, order) ==
    SortSeq([i \in 1..Len(order) |-> Member_ServerLine(ms[order[i]])], StringLess)

\* strings.Join(a, sep)
RECURSIVE Join(_, _)
Join(a, sep) ==
    IF a = <<>> THEN ""
    ELSE IF Len(a) = 1 THEN a[1]
    ELSE a[1] \o sep \o Join(Tail(a), sep)

\* the data of /zookeeper/config as the ensemble with the server lines zk
\* returns it: the lines, in the ensemble's own order, then the version
ConfigData(zk) ==
    LET sorted == SortSeq(SetToSeq(zk), StringLess)
        lines == [i \in 1..Len(sorted) |-> sorted[Len(sorted) + 1 - i]]
    IN  Join(lines \o <<"version=" \o Itoa(Cardinality(zk))>>, "\n")

\* GetClusterConfig on the text: [cfg, err]
Text_GetClusterConfig(zk, hosts) ==
    LET configDataArr == Split(ConfigData(zk), "\n")
        clusterConfig == SubSeq(configDataArr, 1, Len(configDataArr) - 1)
    IN  IF hosts = <<>>
        THEN {[cfg |-> <<>>, err |-> "ConnectError"]}
        ELSE {[cfg |-> SortSeq(clusterConfig, StringLess), err |-> Nil]}
             \cup {[cfg |-> <<>>, err |-> e] : e \in ZkErrors}

\* an updateMembers that reads the name off the peer part of the line
Cluster_updateMembers_PeerPart(cMembers, namespace, known, zk, order) ==
    LET clientName(serverConfig) ==
            LET leaderClientSplit == Split(serverConfig, ";")
                clientHostname == Split(leaderClientSplit[1], ":")[1]
            IN  Split(clientHostname, ".")[1]
    IN  {IF g.err # Nil THEN [members |-> cMembers, resp |-> g.cfg, err |-> g.err]
         ELSE [members |-> NewMemberSet({clientName(g.cfg[i]) : i \in DOMAIN g.cfg},
                                        namespace),
               resp |-> g.cfg, err |-> Nil] :
            g \in Text_GetClusterConfig(zk, MemberSet_ClientHostList(known, order))}

\* Cluster.updateMembers(known) on c.members: [members, resp, err], the
\* membership afterwards, what was read and the error returned.  (Go
\* indexes from 0: leaderClientSplit[1] is the part after the ";".)
Cluster_updateMembers(cMembers, namespace, known, zk, order) ==
    LET clientName(serverConfig) ==
            LET leaderClientSplit == Split(serverConfig, ";")
                clientHostname == Split(leaderClientSplit[2], ":")[1]
            IN  Split(clientHostname, ".")[1]
    IN  {IF g.err # Nil THEN [members |-> cMembers, resp |-> g.cfg, err |-> g.err]
         ELSE [members |-> NewMemberSet({clientName(g.cfg[i]) : i \in DOMAIN g.cfg},
                                        namespace),
               resp |-> g.cfg, err |-> Nil] :
            g \in Text_GetClusterConfig(zk, MemberSet_ClientHostList(known, order))}

----------------------------------------------------------------------------
(* Ensemble client: zookeeperutil.GetClusterConfig / ReconfigureCluster.   *)
(* The ensemble is a black box holding its live configuration zkServers.   *)

\* the raw payload of /zookeeper/config: the server lines, in the
\* ensemble's own order, followed by the version line
Payload(zk) ==
    LET sorted == SortStrings(SetToSeq(zk))
        order == [i \in 1..Len(sorted) |-> sorted[Len(sorted) + 1 - i]]
    IN  order \o <<[version |-> Cardinality(zk)]>>

\* a normalisation that strips the version line and leaves the order
StripAndSort_NoSort(configDataArr) ==
    SubSeq(configDataArr, 1, Len(configDataArr) - 1)

\* strip the last line, sort the rest
StripAndSort(configDataArr) ==
    SortStrings(SubSeq(configDataArr, 1, Len(configDataArr) - 1))

\* outcomes of GetClusterConfig(hosts): [cfg, err]
GetClusterConfig(zk, hosts) ==
    IF hosts = <<>>
    THEN {[cfg |-> <<>>, err |-> "ConnectError"]}
    ELSE {[cfg |-> StripAndSort(Payload(zk)), err |-> Nil]}
         \cup {[cfg |-> <<>>, err |-> e] : e \in ZkErrors}

\* outcomes of ReconfigureCluster(hosts, desiredConfig): [zk, cfg, err];
\* a successful non-incremental reconfig makes desiredConfig the live config
ReconfigureCluster(zk, hosts, desiredConfig) ==
    IF hosts = <<>>
    THEN {[zk |-> zk, cfg |-> <<>>, err |-> "ConnectError"]}
    ELSE {[zk |-> Range(desiredConfig),
           cfg |-> StripAndSort(Payload(Range(desiredConfig))),
           err |-> Nil]}
         \cup {[zk |-> zk, cfg |-> <<>>, err |-> e] : e \in ZkErrors}

----------------------------------------------------------------------------
(* Status and condition tracker (api.ClusterStatus)                        *)

\* Scaling and Upgrading hold the active condition of that type, if any
InitStatus(size, version) ==
    [Size |-> size, Scaling |-> {}, Upgrading |-> {},
     Ready |-> FALSE, CurrentVersion |-> version, TargetVersion |-> ""]

ClearCondition(st, t) ==
    IF t = "Scaling" THEN [st EXCEPT !.Scaling = {}]
    ELSE [st EXCEPT !.Upgrading = {}]

SetScalingUpCondition(st, from, to) ==
    [st EXCEPT !.Scaling = {[dir |-> "up", from |-> from, to |-> to]}]

SetScalingDownCondition(st, from, to) ==
    [st EXCEPT !.Scaling = {[dir |-> "down", from |-> from, to |-> to]}]

UpgradeVersionTo(st, v) ==
    [st EXCEPT !.TargetVersion = v,
               !.Upgrading = {[from |-> st.CurrentVersion, to |-> v]}]

SetVersion(st, v) == [st EXCEPT !.CurrentVersion = v, !.TargetVersion = ""]

SetReadyCondition(st) ==
    [st EXCEPT !.Ready = TRUE, !.Scaling = {}, !.Upgrading = {}]

----------------------------------------------------------------------------
(* Pods                                                                    *)

\* a pod is its name, its ZOO_SERVERS and, as version, the value of its
\* annotation "zookeeper.version"
zookeeperVersionAnnotationKey == "zookeeper.version"

GetZookeeperVersion(pod) == pod.version

\* pod.Annotations[zookeeperVersionAnnotationKey] = version
SetZookeeperVersion(annotations, version) ==
    With(annotations, zookeeperVersionAnnotationKey, version)

\* api.PodPolicy, of which the annotations matter here; cs.Pod is a pointer
\* and nil when the spec carries no policy
NilPolicy == [nil |-> TRUE, Annotations |-> [k \in {} |-> ""]]

PodPolicy(annotations) == [nil |-> FALSE, Annotations |-> annotations]

PodPolicyOf(cs) == IF "Pod" \in DOMAIN cs THEN cs.Pod ELSE NilPolicy

\* applyPodPolicy on the pod's annotations: every annotation of the policy
\* is written over the pod's
applyPodPolicy(annotations, policy) ==
    IF policy.nil THEN annotations
    ELSE [k \in DOMAIN annotations \cup DOMAIN policy.Annotations |->
             IF k \in DOMAIN policy.Annotations THEN policy.Annotations[k]
             ELSE annotations[k]]

\* the pod NewZookeeperPod builds for member m
NewZookeeperPod(m, existingCluster, state, cs) ==
    LET annotations ==
            applyPodPolicy(SetZookeeperVersion([k \in {} |-> ""], cs.Version),
                           PodPolicyOf(cs))
    IN  [name |-> m,
         servers |-> Append(existingCluster,
                            IF state = "seed" \/ state = "replacement"
                            THEN ServerLine(m, "participant")
                            ELSE ServerLine(m, "observer")),
         version |-> annotations[zookeeperVersionAnnotationKey]]

podsToMemberSet(podList) == {podList[i].name : i \in DOMAIN podList}

\* the pod listings a pass can be handed for the running pods: every pod
\* can come first (pickOneOldMember looks for the first old pod)
Listings(running) ==
    LET pod(n) == [name |-> n, version |-> running[n]]
        byID(a, b) == ID(a) < ID(b)
    IN  IF DOMAIN running = {} THEN {<<>>}
        ELSE {<<pod(f)>> \o
                 LET rest == SortSeq(SetToSeq(DOMAIN running \ {f}), byID)
                 IN  [i \in 1..Len(rest) |-> pod(rest[i])] :
                 f \in DOMAIN running}

----------------------------------------------------------------------------
(* The state a pass works on and the side effects it issues.               *)
(* s = [members, pods, zk, status, eff]; eff is the sequence of calls      *)
(* made to the ensemble and to the pod API, in the order they were made.   *)

Out(s, err) == [s |-> s, err |-> err]

\* one call: op is "read", "reconfig", "delete" or "create"; name the pod
\* (delete, create); wait the graceful flag (delete); state the join state
\* (create); cfg the config pushed (reconfig) or the pod's ZOO_SERVERS
\* (create); ok whether the call succeeded
Effect(s, e) == [s EXCEPT !.eff = Append(@, e)]

NoEffect ==
    [op |-> "", name |-> NoMember, wait |-> FALSE, state |-> "", cfg |-> <<>>, ok |-> TRUE]

\* c.removePod(name, wait): the pod is deleted (a pod that is already gone
\* is no error), or the API call fails
removePod(s, name, wait) ==
    LET e == [NoEffect EXCEPT !.op = "delete", !.name = name, !.wait = wait]
    IN  { Out(Effect([s EXCEPT !.pods = Without(@, name)], e), Nil),
          Out(Effect(s, [e EXCEPT !.ok = FALSE]), "PodDeleteError") }

\* c.createPod(existingCluster, m, state): NewZookeeperPod, then
\* CreateAndWaitPod: the pod runs, or creation fails or times out
createPod(s, existingCluster, m, state, cs) ==
    LET pod == NewZookeeperPod(m, existingCluster, state, cs)
        e == [NoEffect EXCEPT !.op = "create", !.name = m, !.state = state,
                              !.cfg = pod.servers]
    IN  { Out(Effect([s EXCEPT !.pods = With(@, pod.name, pod.version)], e), Nil),
          Out(Effect(s, [e EXCEPT !.ok = FALSE]), "PodCreateError") }

\* the ensemble client calls, acting on s
readConfig(s, hosts) ==
    {[s |-> Effect(s, [NoEffect EXCEPT !.op = "read", !.ok = (g.err = Nil)]),
      cfg |-> g.cfg, err |-> g.err] :
        g \in GetClusterConfig(s.zk, hosts)}

reconfigure(s, hosts, desiredConfig) ==
    {Out(Effect([s EXCEPT !.zk = r.zk],
                [NoEffect EXCEPT !.op = "reconfig", !.cfg = desiredConfig,
                                 !.ok = (r.err = Nil)]),
         r.err) :
        r \in ReconfigureCluster(s.zk, hosts, desiredConfig)}

----------------------------------------------------------------------------
(* pkg/cluster/member.go                                                   *)

newMember(ms) == <<ClusterName, MaxMemberID(ms) + 1>>

----------------------------------------------------------------------------
(* pkg/cluster/reconcile.go                                                *)

\* the text of a member's name, "<cluster>-<id>"
NameText(m) == m[1] \o "-" \o Itoa(m[2])

\* fmt.Errorf("fail to create member's pod (%s): %v", toAdd.Name, err)
CreateErrorf(m, err) ==
    "fail to create member's pod (" \o NameText(m) \o "): " \o err

\* an add that inserts the member only once its pod runs
addMember_InsertAfterCreate(s, toAdd, state, cs) ==
    LET existingCluster == ClusterConfig(s.members)
    IN  {IF o.err # Nil THEN Out(o.s, CreateErrorf(toAdd, o.err))
         ELSE Out([o.s EXCEPT !.members = Add(@, toAdd)], Nil) :
            o \in createPod(s, existingCluster, toAdd, state, cs)}

addMember(s, toAdd, state, cs) ==
    LET existingCluster == ClusterConfig(s.members)
        s1 == [s EXCEPT !.members = Add(@, toAdd)]
    IN  {IF o.err # Nil THEN Out(o.s, CreateErrorf(toAdd, o.err)) ELSE o :
            o \in createPod(s1, existingCluster, toAdd, state, cs)}

\* a resize that does not stop after one member
addOneMember_Twice(s, cs) ==
    LET s1 == [s EXCEPT !.status = SetScalingUpCondition(@, Size(s.members), cs.Size)]
    IN  UNION {IF o.err # Nil \/ Size(o.s.members) >= cs.Size THEN {o}
               ELSE addMember(o.s, newMember(o.s.members), "new", cs) :
                  o \in addMember(s1, newMember(s1.members), "new", cs)}

\* a scale-up whose new member joins like a replacement
addOneMember_AsReplacement(s, cs) ==
    LET s1 == [s EXCEPT !.status = SetScalingUpCondition(@, Size(s.members), cs.Size)]
    IN  addMember(s1, newMember(s1.members), "replacement", cs)

addOneMember(s, cs) ==
    LET s1 == [s EXCEPT !.status = SetScalingUpCondition(@, Size(s.members), cs.Size)]
    IN  addMember(s1, newMember(s1.members), "new", cs)

\* a removal that deletes the pod before it reconfigures the ensemble
removeMember_DeleteFirst(s, toRemove, isScalingEvent) ==
    LET s1 == [s EXCEPT !.members = Remove(@, toRemove)]
    IN  UNION {IF o.err # Nil \/ ~isScalingEvent THEN {o}
               ELSE {Out(r.s, Nil) :
                        r \in reconfigure(o.s, ClientHostList(o.s.members),
                                          ClusterConfig(o.s.members))} :
                  o \in removePod(s1, toRemove, isScalingEvent)}

removeMember(s, toRemove, isScalingEvent) ==
    LET s1 == [s EXCEPT !.members = Remove(@, toRemove)]
        \* the error of the reconfigure is logged and then overwritten
        afterReconfig ==
            IF isScalingEvent
            THEN {o.s : o \in reconfigure(s1, ClientHostList(s1.members),
                                          ClusterConfig(s1.members))}
            ELSE {s1}
    IN  UNION {removePod(s2, toRemove, isScalingEvent) : s2 \in afterReconfig}

removeOneMember(s, cs) ==
    LET s1 == [s EXCEPT !.status = SetScalingDownCondition(@, Size(s.members), cs.Size)]
    IN  IF s1.members = {}
        THEN {Out(s1, "EmptySetError")}
        ELSE UNION {removeMember(s1, m, TRUE) : m \in PickOne(s1.members)}

\* a replace that goes on to resize in the same pass
replaceDeadMember_ThenResize(s, toReplace, cs) ==
    UNION {IF o.err # Nil THEN {o}
           ELSE UNION {IF a.err # Nil THEN {a}
                       ELSE IF Size(a.s.members) < cs.Size THEN addOneMember(a.s, cs)
                       ELSE {a} :
                          a \in addMember(o.s, toReplace, "replacement", cs)} :
              o \in removeMember(s, toReplace, FALSE)}

\* a replace that allocates a fresh member instead of re-adding the dead one
replaceDeadMember_NewID(s, toReplace, cs) ==
    UNION {IF o.err # Nil THEN {o}
           ELSE addMember(o.s, newMember(o.s.members \cup {toReplace}), "replacement", cs) :
              o \in removeMember(s, toReplace, FALSE)}

replaceDeadMember(s, toReplace, cs) ==
    UNION {IF o.err # Nil THEN {o} ELSE addMember(o.s, toReplace, "replacement", cs) :
              o \in removeMember(s, toReplace, FALSE)}

\* a resize that only grows the cluster
resize_GrowOnly(s, cs) ==
    IF Size(s.members) < cs.Size THEN addOneMember(s, cs) ELSE {Out(s, Nil)}

resize(s, cs) ==
    IF Size(s.members) = cs.Size THEN {Out(s, Nil)}
    ELSE IF Size(s.members) < cs.Size THEN addOneMember(s, cs)
    ELSE removeOneMember(s, cs)

\* a pruning that goes on after a deletion failed
RECURSIVE pruneLoop_IgnoreError(_, _, _)
pruneLoop_IgnoreError(s, order, i) ==
    IF i > Len(order) THEN {Out(s, Nil)}
    ELSE UNION {pruneLoop_IgnoreError(o.s, order, i + 1) :
                   o \in removePod(s, order[i], TRUE)}

\* lines 98-106: the pods of unknown members are deleted one after the
\* other, in map iteration order; the first failure ends the pass
RECURSIVE pruneLoop(_, _, _)
pruneLoop(s, order, i) ==
    IF i > Len(order) THEN {Out(s, Nil)}
    ELSE UNION {IF o.err # Nil THEN {o} ELSE pruneLoop(o.s, order, i + 1) :
                   o \in removePod(s, order[i], TRUE)}

\* the quorum check made only after the dead member was removed
reconcileMembers_LateQuorumCheck(s, running, cs) ==
    LET unknownMembers == Diff(running, s.members)
        pruned == IF Size(unknownMembers) > 0
                  THEN UNION {pruneLoop(s, order, 1) : order \in Perms(unknownMembers)}
                  ELSE {Out(s, Nil)}
        L == Diff(running, unknownMembers)
    IN  UNION {IF o.err # Nil THEN {o}
               ELSE IF Size(L) = Size(o.s.members) THEN resize(o.s, cs)
               ELSE UNION {UNION {IF r.err # Nil THEN {r}
                                  ELSE IF Size(L) < (Size(o.s.members) \div 2) + 1
                                       THEN {Out(r.s, ErrLostQuorum)}
                                  ELSE addMember(r.s, m, "replacement", cs) :
                                     r \in removeMember(o.s, m, FALSE)} :
                              m \in PickOne(Diff(o.s.members, L))} :
                  o \in pruned}

\* a quorum check that also fails on exactly a majority
reconcileMembers_StrictQuorum(s, running, cs) ==
    LET unknownMembers == Diff(running, s.members)
        pruned == IF Size(unknownMembers) > 0
                  THEN UNION {pruneLoop(s, order, 1) : order \in Perms(unknownMembers)}
                  ELSE {Out(s, Nil)}
        L == Diff(running, unknownMembers)
    IN  UNION {IF o.err # Nil THEN {o}
               ELSE IF Size(L) = Size(o.s.members) THEN resize(o.s, cs)
               ELSE IF Size(L) <= (Size(o.s.members) \div 2) + 1
                    THEN {Out(o.s, ErrLostQuorum)}
               ELSE IF Diff(o.s.members, L) = {}
                    THEN {Out(o.s, "EmptySetError")}
               ELSE UNION {replaceDeadMember(o.s, m, cs) :
                              m \in PickOne(Diff(o.s.members, L))} :
                  o \in pruned}

\* a quorum threshold of half the members, rounded up
reconcileMembers_CeilQuorum(s, running, cs) ==
    LET unknownMembers == Diff(running, s.members)
        pruned == IF Size(unknownMembers) > 0
                  THEN UNION {pruneLoop(s, order, 1) : order \in Perms(unknownMembers)}
                  ELSE {Out(s, Nil)}
        L == Diff(running, unknownMembers)
    IN  UNION {IF o.err # Nil THEN {o}
               ELSE IF Size(L) = Size(o.s.members) THEN resize(o.s, cs)
               ELSE IF Size(L) < (Size(o.s.members) + 1) \div 2
                    THEN {Out(o.s, ErrLostQuorum)}
               ELSE IF Diff(o.s.members, L) = {}
                    THEN {Out(o.s, "EmptySetError")}
               ELSE UNION {replaceDeadMember(o.s, m, cs) :
                              m \in PickOne(Diff(o.s.members, L))} :
                  o \in pruned}

\* a reconciliation that replaces a dead member without the quorum check
reconcileMembers_NoQuorumCheck(s, running, cs) ==
    LET unknownMembers == Diff(running, s.members)
        pruned == IF Size(unknownMembers) > 0
                  THEN UNION {pruneLoop(s, order, 1) : order \in Perms(unknownMembers)}
                  ELSE {Out(s, Nil)}
        L == Diff(running, unknownMembers)
    IN  UNION {IF o.err # Nil THEN {o}
               ELSE IF Size(L) = Size(o.s.members) THEN resize(o.s, cs)
               ELSE IF Diff(o.s.members, L) = {}
                    THEN {Out(o.s, "EmptySetError")}
               ELSE UNION {replaceDeadMember(o.s, m, cs) :
                              m \in PickOne(Diff(o.s.members, L))} :
                  o \in pruned}

\* a replace-dead step that picks from L.Diff(members)
reconcileMembers_DiffReversed(s, running, cs) ==
    LET unknownMembers == Diff(running, s.members)
        pruned == IF Size(unknownMembers) > 0
                  THEN UNION {pruneLoop(s, order, 1) : order \in Perms(unknownMembers)}
                  ELSE {Out(s, Nil)}
        L == Diff(running, unknownMembers)
    IN  UNION {IF o.err # Nil THEN {o}
               ELSE IF Size(L) = Size(o.s.members) THEN resize(o.s, cs)
               ELSE IF Size(L) < (Size(o.s.members) \div 2) + 1
                    THEN {Out(o.s, ErrLostQuorum)}
               ELSE IF Diff(L, o.s.members) = {}
                    THEN {Out(o.s, "EmptySetError")}
               ELSE UNION {replaceDeadMember(o.s, m, cs) :
                              m \in PickOne(Diff(L, o.s.members))} :
                  o \in pruned}

reconcileMembers(s, running, cs) ==
    LET unknownMembers == Diff(running, s.members)
        pruned == IF Size(unknownMembers) > 0
                  THEN UNION {pruneLoop(s, order, 1) : order \in Perms(unknownMembers)}
                  ELSE {Out(s, Nil)}
        L == Diff(running, unknownMembers)
    IN  UNION {IF o.err # Nil THEN {o}
               ELSE IF Size(L) = Size(o.s.members) THEN resize(o.s, cs)
               ELSE IF Size(L) < (Size(o.s.members) \div 2) + 1
                    THEN {Out(o.s, ErrLostQuorum)}
               ELSE IF Diff(o.s.members, L) = {}
                    THEN {Out(o.s, "EmptySetError")}
               ELSE UNION {replaceDeadMember(o.s, m, cs) :
                              m \in PickOne(Diff(o.s.members, L))} :
                  o \in pruned}

\* a pick that skips the pods on another version instead of those on it
pickOneOldMember_Inverted(podList, newVersion) ==
    LET old == {i \in DOMAIN podList : GetZookeeperVersion(podList[i]) = newVersion}
    IN  IF old = {} THEN NoMember ELSE podList[Min(old)].name

\* a pick that keeps looking and returns the last pod on another version
pickOneOldMember_Last(podList, newVersion) ==
    LET old == {i \in DOMAIN podList : GetZookeeperVersion(podList[i]) # newVersion}
    IN  IF old = {} THEN NoMember ELSE podList[Max(old)].name

pickOneOldMember(podList, newVersion) ==
    LET old == {i \in DOMAIN podList : GetZookeeperVersion(podList[i]) # newVersion}
    IN  IF old = {} THEN NoMember ELSE podList[Min(old)].name

\* an upgrade check that does not look at the number of pods
needUpgrade_AnySize(podList, cs) ==
    pickOneOldMember(podList, cs.Version) # NoMember

needUpgrade(podList, cs) ==
    Len(podList) = cs.Size /\ pickOneOldMember(podList, cs.Version) # NoMember

\* the upgrade step: the member is removed as in a scale-down and re-added
\* under its name as a replacement, its pod built with the target version
upgradeOneMember(s, m, cs) ==
    UNION {IF o.err # Nil THEN {o} ELSE addMember(o.s, m, "replacement", cs) :
              o \in removeMember(s, m, TRUE)}

\* an upgrade step that does not return and goes on to set Ready
reconcileRest_UpgradeThenReady(s, podList, running, cs) ==
    IF ~IsEqual(running, s.members) \/ Size(s.members) # cs.Size
    THEN reconcileMembers(s, running, cs)
    ELSE LET s1 == [s EXCEPT !.status = ClearCondition(@, "Scaling")]
             ready(x) == [x EXCEPT !.status =
                             SetReadyCondition(SetVersion(ClearCondition(@, "Upgrading"),
                                                          cs.Version))]
         IN  IF needUpgrade(podList, cs)
             THEN {IF o.err # Nil THEN o ELSE Out(ready(o.s), Nil) :
                      o \in upgradeOneMember(
                                [s1 EXCEPT !.status = UpgradeVersionTo(@, cs.Version)],
                                pickOneOldMember(podList, cs.Version), cs)}
             ELSE {Out(ready(s1), Nil)}

\* an orchestrator that evaluates the upgrade need before it clears Scaling
reconcileRest_ScalingKept(s, podList, running, cs) ==
    IF ~IsEqual(running, s.members) \/ Size(s.members) # cs.Size
    THEN reconcileMembers(s, running, cs)
    ELSE IF needUpgrade(podList, cs)
         THEN upgradeOneMember(
                  [s EXCEPT !.status = UpgradeVersionTo(@, cs.Version)],
                  pickOneOldMember(podList, cs.Version), cs)
         ELSE {Out([s EXCEPT !.status =
                       SetReadyCondition(SetVersion(
                           ClearCondition(ClearCondition(@, "Scaling"), "Upgrading"),
                           cs.Version))],
                   Nil)}

\* an orchestrator that looks at the upgrade need before the scaling check
reconcileRest_UpgradeFirst(s, podList, running, cs) ==
    IF needUpgrade(podList, cs)
    THEN upgradeOneMember(
             [s EXCEPT !.status = UpgradeVersionTo(ClearCondition(@, "Scaling"),
                                                   cs.Version)],
             pickOneOldMember(podList, cs.Version), cs)
    ELSE IF ~IsEqual(running, s.members) \/ Size(s.members) # cs.Size
    THEN reconcileMembers(s, running, cs)
    ELSE {Out([s EXCEPT !.status =
                  SetReadyCondition(SetVersion(
                      ClearCondition(ClearCondition(@, "Scaling"), "Upgrading"),
                      cs.Version))],
              Nil)}

\* lines 64-82
reconcileRest(s, podList, running, cs) ==
    IF ~IsEqual(running, s.members) \/ Size(s.members) # cs.Size
    THEN reconcileMembers(s, running, cs)
    ELSE LET s1 == [s EXCEPT !.status = ClearCondition(@, "Scaling")]
         IN  IF needUpgrade(podList, cs)
             THEN upgradeOneMember(
                      [s1 EXCEPT !.status = UpgradeVersionTo(@, cs.Version)],
                      pickOneOldMember(podList, cs.Version), cs)
             ELSE {Out([s1 EXCEPT !.status =
                           SetReadyCondition(SetVersion(ClearCondition(@, "Upgrading"),
                                                        cs.Version))],
                       Nil)}

\* a check that goes on to scaling after it reconfigured
reconfigCheck_NoReturn(s, podList, running, cs) ==
    LET clientHosts == ClientHostList(s.members)
        memberClusterConfig == ClusterConfig(s.members)
    IN  UNION {IF g.err # Nil THEN {Out(g.s, g.err)}
               ELSE IF Len(g.cfg) # Size(s.members) \/ g.cfg # memberClusterConfig
                    THEN UNION {IF r.err # Nil THEN {r}
                                ELSE reconcileRest(r.s, podList, running, cs) :
                                   r \in reconfigure(g.s, clientHosts, memberClusterConfig)}
               ELSE reconcileRest(g.s, podList, running, cs) :
                  g \in readConfig(s, clientHosts)}

\* a check that ends the pass when it finds nothing to reconfigure
reconfigCheck_EndsOnNoop(s, podList, running, cs) ==
    LET clientHosts == ClientHostList(s.members)
        memberClusterConfig == ClusterConfig(s.members)
    IN  UNION {IF g.err # Nil THEN {Out(g.s, g.err)}
               ELSE IF Len(g.cfg) # Size(s.members) \/ g.cfg # memberClusterConfig
                    THEN reconfigure(g.s, clientHosts, memberClusterConfig)
               ELSE {Out(g.s, Nil)} :
                  g \in readConfig(s, clientHosts)}

\* a check that pushes the membership's config whatever it read
reconfigCheck_AlwaysReconfigure(s, podList, running, cs) ==
    LET clientHosts == ClientHostList(s.members)
        memberClusterConfig == ClusterConfig(s.members)
    IN  UNION {IF g.err # Nil THEN {Out(g.s, g.err)}
               ELSE UNION {IF r.err # Nil THEN {r}
                           ELSE reconcileRest(r.s, podList, running, cs) :
                              r \in reconfigure(g.s, clientHosts, memberClusterConfig)} :
                  g \in readConfig(s, clientHosts)}

\* lines 46-63
reconfigCheck(s, podList, running, cs) ==
    LET clientHosts == ClientHostList(s.members)
        memberClusterConfig == ClusterConfig(s.members)
    IN  UNION {IF g.err # Nil THEN {Out(g.s, g.err)}
               ELSE IF Len(g.cfg) # Size(s.members) \/ g.cfg # memberClusterConfig
                    THEN reconfigure(g.s, clientHosts, memberClusterConfig)
               ELSE reconcileRest(g.s, podList, running, cs) :
                  g \in readConfig(s, clientHosts)}

\* a pass that refreshes the observed size only when it succeeds
reconcile_SizeOnSuccess(s, podList, cs) ==
    LET running == podsToMemberSet(podList)
        outs == IF IsEqual(running, s.members)
                THEN reconfigCheck(s, podList, running, cs)
                ELSE reconcileRest(s, podList, running, cs)
    IN  {IF o.err # Nil THEN o
         ELSE Out([o.s EXCEPT !.status.Size = Size(o.s.members)], o.err) : o \in outs}

\* the outcomes of one pass on the pod listing podList
reconcile(s, podList, cs) ==
    LET running == podsToMemberSet(podList)
        outs == IF IsEqual(running, s.members)
                THEN reconfigCheck(s, podList, running, cs)
                ELSE reconcileRest(s, podList, running, cs)
    IN  {Out([o.s EXCEPT !.status.Size = Size(o.s.members)], o.err) : o \in outs}

----------------------------------------------------------------------------
(* The system: the cluster's worker runs passes one at a time; between     *)
(* passes pods crash, foreign pods appear and the cluster object is        *)
(* modified.                                                               *)

NoPods == [n \in {} |-> ""]

NoPass ==
    [ran |-> FALSE, members0 |-> {}, pods0 |-> NoPods, zk0 |-> {},
     status0 |-> InitStatus(0, ""), eff |-> <<>>, err |-> Nil]

\* no function was called on its own
NoRet ==
    [op |-> "", a |-> NoPods, b |-> NoPods, ms |-> NoPods, bool |-> FALSE,
     n |-> 0, order |-> <<>>, list |-> <<>>, order2 |-> <<>>, list2 |-> <<>>,
     m |-> NoMember, err |-> Nil]

\* the resource versions a cluster object carries
ResourceVersions == {"123", "321"}

\* no event was handled
NoEvent == [typ |-> "", rv |-> "", spec |-> [Size |-> 0, Version |-> ""]]

\* a cluster created with n seed members, all running
Init ==
    \E n \in SeedSizes, v \in {"3.4.0"} :
        /\ spec = [Size |-> n, Version |-> v]
        /\ members = {<<ClusterName, i>> : i \in 1..n}
        /\ pods = [m \in members |-> v]
        /\ zkServers = Range(ClusterConfig(members))
        /\ status = InitStatus(n, v)
        /\ pass = NoPass
        /\ events = 0
        /\ ret = NoRet
        /\ resourceVersion = "123"
        /\ event = NoEvent

\* the calls of a pass that failed
Failures(eff) == Cardinality({i \in DOMAIN eff : ~eff[i].ok})

\* Resync: list the running pods and run one reconcile pass
Reconcile ==
    \E podList \in Listings(pods) :
        \E o \in reconcile([members |-> members, pods |-> pods, zk |-> zkServers,
                            status |-> status, eff |-> <<>>], podList, spec) :
            /\ o.s.members \subseteq Names
            /\ events + Failures(o.s.eff) <= MaxEvents
            /\ events' = events + Failures(o.s.eff)
            /\ members' = o.s.members
            /\ pods' = o.s.pods
            /\ zkServers' = o.s.zk
            /\ status' = o.s.status
            /\ pass' = [ran |-> TRUE, members0 |-> members, pods0 |-> pods,
                        zk0 |-> zkServers, status0 |-> status,
                        eff |-> o.s.eff, err |-> o.err]
            /\ UNCHANGED <<spec, ret, resourceVersion, event>>

\* a handler of the Modified event that also starts the status afresh
handleUpdateEvent_ResetsStatus ==
    \E size \in SpecSizes, v \in Versions, rv \in ResourceVersions :
        LET e == [typ |-> "eventModifyCluster", rv |-> rv,
                  spec |-> [Size |-> size, Version |-> v]]
        IN  /\ rv # resourceVersion
            /\ spec' = e.spec
            /\ resourceVersion' = e.rv
            /\ status' = InitStatus(Size(members), e.spec.Version)
            /\ event' = e
            /\ pass' = NoPass
            /\ events < MaxEvents
            /\ events' = events + 1
            /\ UNCHANGED <<members, pods, zkServers, ret>>

\* Modified event e, carrying the cluster object as it now is (its spec can
\* be the one cached, its resource version is a new one): the cached
\* cluster object is replaced by the event's
handleUpdateEvent ==
    \E size \in SpecSizes, v \in Versions, rv \in ResourceVersions :
        LET e == [typ |-> "eventModifyCluster", rv |-> rv,
                  spec |-> [Size |-> size, Version |-> v]]
        IN  /\ rv # resourceVersion
            /\ spec' = e.spec
            /\ resourceVersion' = e.rv
            /\ event' = e
            /\ pass' = NoPass
            /\ events < MaxEvents
            /\ events' = events + 1
            /\ UNCHANGED <<members, pods, zkServers, status, ret>>

\* a running pod dies
PodCrash ==
    \E n \in DOMAIN pods :
        /\ pods' = Without(pods, n)
        /\ pass' = NoPass
        /\ events < MaxEvents
        /\ events' = events + 1
        /\ UNCHANGED <<spec, members, zkServers, status, ret, resourceVersion, event>>

\* a pod carrying the cluster's labels that is no member starts running
PodAppears ==
    \E n \in Names \ (members \cup DOMAIN pods), v \in Versions :
        /\ pods' = With(pods, n, v)
        /\ pass' = NoPass
        /\ events < MaxEvents
        /\ events' = events + 1
        /\ UNCHANGED <<spec, members, zkServers, status, ret, resourceVersion, event>>

Next == Reconcile \/ handleUpdateEvent \/ PodCrash \/ PodAppears

Spec == Init /\ [][Next]_vars

----------------------------------------------------------------------------
(* A cluster whose spec carries a pod policy: n members run 3.4.0, the     *)
(* spec asks for any version, and the worker runs passes.                  *)

\* pod policies: none, one without annotations, one with an annotation of
\* the user's, and those that set the annotation "zookeeper.version"
Policies ==
    {NilPolicy,
     PodPolicy([k \in {} |-> ""]),
     PodPolicy([k \in {"team"} |-> "infra"])}
    \cup {PodPolicy([k \in {zookeeperVersionAnnotationKey} |-> v]) : v \in Versions}

PolicyInit ==
    \E n \in SeedSizes, v \in Versions, policy \in Policies :
        /\ spec = [Size |-> n, Version |-> v, Pod |-> policy]
        /\ members = {<<ClusterName, i>> : i \in 1..n}
        /\ pods = [m \in members |-> "3.4.0"]
        /\ zkServers = Range(ClusterConfig(members))
        /\ status = InitStatus(n, "3.4.0")
        /\ pass = NoPass
        /\ events = 0
        /\ ret = NoRet
        /\ resourceVersion = "123"
        /\ event = NoEvent

PolicyNext == Reconcile \/ PodCrash

PolicySpec == PolicyInit /\ [][PolicyNext]_vars

----------------------------------------------------------------------------
(* One pass from every membership 1..n, n up to MaxMembers, with any of    *)
(* the members' pods gone and possibly a foreign pod running.              *)

QuorumInit ==
    \E n \in 1..MaxMembers :
        \E run \in SUBSET {<<ClusterName, i>> : i \in 1..(n + 2)} :
            \E size \in {n - 1, n, n + 1} \cap (1..MaxMembers) :
                /\ spec = [Size |-> size, Version |-> "3.4.0"]
                /\ members = {<<ClusterName, i>> : i \in 1..n}
                /\ pods = [m \in run |-> "3.4.0"]
                /\ zkServers = Range(ClusterConfig(members))
                /\ status = InitStatus(n, "3.4.0")
                /\ pass = NoPass
                /\ events = 0
                /\ ret = NoRet
                /\ resourceVersion = "123"
                /\ event = NoEvent

QuorumPass ==
    /\ ~pass.ran
    /\ \E podList \in Listings(pods) :
          \E o \in reconcile([members |-> members, pods |-> pods, zk |-> zkServers,
                              status |-> status, eff |-> <<>>], podList, spec) :
              /\ events' = events + Failures(o.s.eff)
              /\ members' = o.s.members
              /\ pods' = o.s.pods
              /\ zkServers' = o.s.zk
              /\ status' = o.s.status
              /\ pass' = [ran |-> TRUE, members0 |-> members, pods0 |-> pods,
                          zk0 |-> zkServers, status0 |-> status,
                          eff |-> o.s.eff, err |-> o.err]
              /\ UNCHANGED <<spec, ret, resourceVersion, event>>

QuorumNext == QuorumPass

QuorumSpec == QuorumInit /\ [][QuorumNext]_vars

----------------------------------------------------------------------------
(* The control loop under a fixed spec: the resync timer fires again and   *)
(* again and each tick is followed by one pass; pods crash and calls fail  *)
(* only finitely often.  pass.ran tells that the pass of the last tick has *)
(* run.                                                                    *)

LiveSizes == {1, 2, 3, 5}

LiveInit ==
    \E n \in LiveSizes, size \in LiveSizes, v \in Versions :
        /\ spec = [Size |-> size, Version |-> v]
        /\ members = {<<ClusterName, i>> : i \in 1..n}
        /\ pods = [m \in members |-> "3.4.0"]
        /\ zkServers = Range(ClusterConfig(members))
        /\ status = InitStatus(n, "3.4.0")
        /\ pass = NoPass
        /\ events = 0
        /\ ret = NoRet
        /\ resourceVersion = "123"
        /\ event = NoEvent

\* the resync timer fires: a pass is due
LiveTick ==
    /\ pass.ran
    /\ pass' = NoPass
    /\ UNCHANGED <<spec, members, pods, zkServers, status, events, ret, resourceVersion, event>>

\* Resync: the pass that is due runs
LivePass ==
    \E podList \in Listings(pods) :
        \E o \in reconcile([members |-> members, pods |-> pods, zk |-> zkServers,
                            status |-> status, eff |-> <<>>], podList, spec) :
            /\ ~pass.ran
            /\ events + Failures(o.s.eff) <= MaxEvents
            /\ events' = events + Failures(o.s.eff)
            /\ members' = o.s.members
            /\ pods' = o.s.pods
            /\ zkServers' = o.s.zk
            /\ status' = o.s.status
            /\ pass' = [ran |-> TRUE, members0 |-> members, pods0 |-> pods,
                        zk0 |-> zkServers, status0 |-> status,
                        eff |-> o.s.eff, err |-> o.err]
            /\ UNCHANGED <<spec, ret, resourceVersion, event>>

\* a running pod dies
LiveCrash ==
    \E n \in DOMAIN pods :
        /\ events < MaxEvents
        /\ events' = events + 1
        /\ pods' = Without(pods, n)
        /\ UNCHANGED <<spec, members, zkServers, status, pass, ret, resourceVersion, event>>

LiveNext == LiveTick \/ LivePass \/ LiveCrash

\* the resync timer fires again and again
LiveSpec == LiveInit /\ [][LiveNext]_vars /\ WF_vars(LiveTick)

\* the passes are scheduled fairly: again and again the due pass has run
PassesRun == []<>pass.ran

----------------------------------------------------------------------------
(* The functions called on their own, on every pod list, spec and pair of  *)
(* member sets over MaxUnit names.                                         *)

UnitNames == {<<ClusterName, i>> : i \in 1..MaxUnit}

Namespaces == {Namespace, "other"}

UnitInit ==
    \E run \in SUBSET UnitNames, ms \in SUBSET UnitNames :
        \E size \in 0..MaxUnit, v \in Versions :
            /\ spec = [Size |-> size, Version |-> v]
            /\ members = ms
            /\ pods \in [run -> Versions]
            /\ zkServers = {}
            /\ status = InitStatus(0, "")
            /\ pass = NoPass
            /\ events = 0
            /\ ret = NoRet
            /\ resourceVersion = "123"
            /\ event = NoEvent

CallNeedUpgrade ==
    \E podList \in Listings(pods) :
        /\ ret' = [NoRet EXCEPT !.op = "needUpgrade",
                                !.bool = needUpgrade(podList, spec)]
        /\ UNCHANGED <<spec, members, pods, zkServers, status, pass, events,
                         resourceVersion, event>>

\* A is built on the names in members, B on the names of the pods
CallDiff ==
    \E nsA \in Namespaces, nsB \in Namespaces :
        LET A == NewMemberSet(members, nsA)
            B == NewMemberSet(DOMAIN pods, nsB)
        IN  /\ ret' = [NoRet EXCEPT !.op = "Diff", !.a = A, !.b = B,
                                    !.ms = MemberSet_Diff(A, B)]
            /\ UNCHANGED <<spec, members, pods, zkServers, status, pass, events,
                         resourceVersion, event>>

CallIsEqual ==
    \E nsA \in Namespaces, nsB \in Namespaces :
        LET A == NewMemberSet(members, nsA)
            B == NewMemberSet(DOMAIN pods, nsB)
        IN  /\ ret' = [NoRet EXCEPT !.op = "IsEqual", !.a = A, !.b = B,
                                    !.bool = MemberSet_IsEqual(A, B)]
            /\ UNCHANGED <<spec, members, pods, zkServers, status, pass, events,
                         resourceVersion, event>>

\* the pods listed in any order
CallPickOneOldMember ==
    \E order \in Perms(DOMAIN pods) :
        LET podList == [i \in 1..Len(order) |->
                           [name |-> order[i], version |-> pods[order[i]]]]
        IN  /\ ret' = [NoRet EXCEPT !.op = "pickOneOldMember", !.a = pods,
                                    !.order = order,
                                    !.m = pickOneOldMember(podList, spec.Version)]
            /\ UNCHANGED <<spec, members, pods, zkServers, status, pass, events,
                           resourceVersion, event>>

UnitNext == CallNeedUpgrade \/ CallDiff \/ CallIsEqual \/ CallPickOneOldMember

UnitSpec == UnitInit /\ [][UnitNext]_vars

----------------------------------------------------------------------------
(* The functions on names and server lines, called on their own on the     *)
(* membership of a cluster.  Here spec is the cluster object with its name *)
(* and namespace, members the MemberSet as the map it is, with the names   *)
(* as text, and zkServers the text of the live server lines.               *)

UnitClusterNames == {"name", "my-zk"}

\* the member IDs of the clusters: one and two digits
UnitIds == {1, 3, 7, 10}

MemberName(clusterName, id) == clusterName \o "-" \o Itoa(id)

NameInit ==
    \E cn \in UnitClusterNames, ns \in Namespaces, ids \in SUBSET UnitIds :
        /\ spec = [Name |-> cn, Namespace |-> ns, Size |-> 3, Version |-> "3.4.0"]
        /\ members = NewMemberSet({MemberName(cn, i) : i \in ids}, ns)
        /\ pods = NoPods
        /\ zkServers = {}
        /\ status = InitStatus(0, "")
        /\ pass = NoPass
        /\ events = 0
        /\ ret = NoRet
        /\ resourceVersion = "123"
        /\ event = NoEvent

\* one call is made in a run
CallNewMember ==
    /\ ret.op = ""
    /\ LET m == Cluster_newMember(spec.Name, spec.Namespace, members)
       IN  ret' = [NoRet EXCEPT !.op = "newMember", !.a = members,
                                !.n = MemberSet_MaxMemberID(members),
                                !.ms = NewMemberSet({m.Name}, m.Namespace)]
    /\ UNCHANGED <<spec, members, pods, zkServers, status, pass, events,
                   resourceVersion, event>>

\* two calls on the membership, the map iterated in any two orders
CallClusterConfig ==
    \E order \in Perms(DOMAIN members), order2 \in Perms(DOMAIN members) :
        /\ ret.op = ""
        /\ ret' = [NoRet EXCEPT !.op = "ClusterConfig", !.a = members,
                                !.order = order,
                                !.list = MemberSet_ClusterConfig(members, order),
                                !.order2 = order2,
                                !.list2 = MemberSet_ClusterConfig(members, order2)]
        /\ UNCHANGED <<spec, members, pods, zkServers, status, pass, events,
                       resourceVersion, event>>

\* two calls on the membership, the map iterated in any two orders
CallClientHostList ==
    \E order \in Perms(DOMAIN members), order2 \in Perms(DOMAIN members) :
        /\ ret.op = ""
        /\ ret' = [NoRet EXCEPT !.op = "ClientHostList", !.a = members,
                                !.order = order,
                                !.list = MemberSet_ClientHostList(members, order),
                                !.order2 = order2,
                                !.list2 = MemberSet_ClientHostList(members, order2)]
        /\ UNCHANGED <<spec, members, pods, zkServers, status, pass, events,
                       resourceVersion, event>>

NameNext == CallNewMember \/ CallClusterConfig \/ CallClientHostList

NameSpec == NameInit /\ [][NameNext]_vars

\* Recovery: the operator holds any membership of the cluster; the ensemble
\* is made of the pods of a member set M of the cluster and its live
\* config is M's config
RecoverInit ==
    \E cn \in UnitClusterNames, ns \in Namespaces :
      \E ids \in SUBSET UnitIds, live \in SUBSET UnitIds :
        /\ spec = [Name |-> cn, Namespace |-> ns, Size |-> 3, Version |-> "3.4.0"]
        /\ members = NewMemberSet({MemberName(cn, i) : i \in ids}, ns)
        /\ pods = [n \in {MemberName(cn, i) : i \in live} |-> "3.4.0"]
        /\ zkServers =
              LET M == NewMemberSet(DOMAIN pods, ns)
              IN  Range(MemberSet_ClusterConfig(M, SetToSeq(DOMAIN M)))
        /\ status = InitStatus(0, "")
        /\ pass = NoPass
        /\ events = 0
        /\ ret = NoRet
        /\ resourceVersion = "123"
        /\ event = NoEvent

\* updateMembers(c.members): the membership is rebuilt from the live config
CallUpdateMembers ==
    \E order \in Perms(DOMAIN members) :
        \E o \in Cluster_updateMembers(members, spec.Namespace, members,
                                       zkServers, order) :
            /\ ret.op = ""
            /\ members' = o.members
            /\ ret' = [NoRet EXCEPT !.op = "updateMembers", !.a = members,
                                    !.list = o.resp, !.err = o.err]
            /\ UNCHANGED <<spec, pods, zkServers, status, pass, events,
                           resourceVersion, event>>

RecoverNext == CallUpdateMembers

RecoverSpec == RecoverInit /\ [][RecoverNext]_vars

----------------------------------------------------------------------------
(* What the last pass did, read from its record                            *)

Running0 == DOMAIN pass.pods0

\* the running pods that were no members when the pass began
Unknown0 == Diff(Running0, pass.members0)

\* the known members that were running when the pass began
L0 == Diff(Running0, Unknown0)

Quorum(n) == (n \div 2) + 1

Calls(op) == {i \in DOMAIN pass.eff : pass.eff[i].op = op}

\* deletions of pods that were no members (pruning)
PruneDeletes == {i \in Calls("delete") : pass.eff[i].name \notin pass.members0}

\* deletions of the pod of a member
MemberDeletes == {i \in Calls("delete") : pass.eff[i].name \in pass.members0}

\* the membership actions the pass performed
AddsDone == {i \in Calls("create") : pass.eff[i].state = "new"}

RemovesDone ==
    {i \in MemberDeletes : pass.eff[i].wait /\ Calls("create") = {}}

ReplacesDone == {i \in MemberDeletes : ~pass.eff[i].wait}

UpgradesDone ==
    {i \in MemberDeletes : pass.eff[i].wait /\ Calls("create") # {}}

\* the status without the observed size, which every pass refreshes
Conditions(st) == [st EXCEPT !.Size = 0]

\* the pass found the pods equal to the membership, read the live
\* configuration and found it equal to / different from the membership's
CheckRead ==
    /\ pass.ran
    /\ IsEqual(Running0, pass.members0)
    /\ pass.eff # <<>>
    /\ pass.eff[1].op = "read"
    /\ pass.eff[1].ok

CheckMismatch ==
    CheckRead /\ StripAndSort(Payload(pass.zk0)) # ClusterConfig(pass.members0)

CheckNoop ==
    CheckRead /\ StripAndSort(Payload(pass.zk0)) = ClusterConfig(pass.members0)

----------------------------------------------------------------------------
(* Claims                                                                  *)

\* C1 (as stated): in every pass at most one of add, remove, replace and
\* prune is performed: a pass never deletes more than one unknown pod and
\* never combines a prune with an add, a remove or a replace.
C1_AtMostOneAction ==
    pass.ran =>
        /\ Cardinality(PruneDeletes) <= 1
        /\ PruneDeletes # {} => (Calls("create") = {} /\ MemberDeletes = {})

\* C1 (amended): a pass performs at most one of the membership actions
\* add, remove, replace (and upgrade); pruning deletes only pods that were
\* running and unknown, each at most once, and a membership action in the
\* same pass comes only after every unknown pod has been deleted.
C1_OneMembershipAction ==
    pass.ran =>
        /\ Cardinality(AddsDone) + Cardinality(RemovesDone)
             + Cardinality(ReplacesDone) + Cardinality(UpgradesDone) <= 1
        /\ Cardinality(Calls("create")) <= 1
        /\ Cardinality(MemberDeletes) <= 1
        /\ \A i \in PruneDeletes : pass.eff[i].name \in Unknown0
        /\ \A i, j \in PruneDeletes : pass.eff[i].name = pass.eff[j].name => i = j
        /\ (Calls("create") # {} \/ MemberDeletes # {}) =>
              /\ {pass.eff[i].name : i \in PruneDeletes} = Unknown0
              /\ \A i \in PruneDeletes :
                    pass.eff[i].ok /\ \A j \in Calls("create") \cup MemberDeletes : i < j

\* a pass that pruned an unknown pod and then replaced a dead member
C1_Witness ==
    /\ pass.ran
    /\ PruneDeletes # {}
    /\ ReplacesDone # {}
    /\ Calls("create") # {}
    /\ pass.err = Nil

\* C2 (as stated): a pass that returns LostQuorum attempted no mutation at
\* all, whatever the running set: no pod created or deleted, no Reconfigure,
\* membership unchanged.
C2_LostQuorumNoMutation ==
    (pass.ran /\ pass.err = ErrLostQuorum) =>
        /\ Calls("create") = {}
        /\ Calls("delete") = {}
        /\ Calls("reconfig") = {}
        /\ members = pass.members0

\* C2 (amended): a pass that returns LostQuorum (|L| < floor(|members|/2)+1)
\* created no pod, deleted no pod of a known member, issued no Reconfigure
\* and left the membership and the live configuration as they were; the
\* only calls it made are the deletions of the unknown pods, all of them,
\* and with no unknown pod running it made no call at all.
C2_LostQuorumOnlyPrunes ==
    (pass.ran /\ pass.err = ErrLostQuorum) =>
        /\ Size(L0) < Quorum(Size(pass.members0))
        /\ members = pass.members0
        /\ zkServers = pass.zk0
        /\ \A i \in DOMAIN pass.eff :
              /\ pass.eff[i].op = "delete"
              /\ pass.eff[i].name \in Unknown0
              /\ pass.eff[i].ok
        /\ DOMAIN pods = L0
        /\ \A n \in L0 : pods[n] = pass.pods0[n]
        /\ Unknown0 = {} => pass.eff = <<>>

\* a pass that deleted an unknown pod and then returned LostQuorum
C2_Witness ==
    /\ pass.ran
    /\ pass.err = ErrLostQuorum
    /\ PruneDeletes # {}
    /\ Size(pass.members0) >= 2

\* the pods among running that the configuration zk counts as members
ServersRunning(running, zk) == {n \in running : \E l \in zk : l.client[1] = n}

HasQuorum(running, zk) ==
    Cardinality(ServersRunning(running, zk)) >= Quorum(Cardinality(zk))

\* C3: the operator never makes the ensemble lose quorum: when the ensemble
\* had quorum before a pass that deleted the pod of a known member, the
\* running pods the ensemble counts as members after the pass are still a
\* majority (floor(N/2)+1) of its live configuration of N servers.
C3_NeverLosesQuorum ==
    (/\ pass.ran
     /\ \E i \in MemberDeletes : pass.eff[i].ok
     /\ HasQuorum(Running0, pass.zk0)) =>
        HasQuorum(DOMAIN pods, zkServers)

\* C4: the size of the membership after a pass differs from its size
\* before the pass by at most one, whether the pass succeeded or failed;
\* with 3 members and spec size 7 a pass leaves at most 4 members.
C4_SingleStepResize ==
    pass.ran =>
        /\ Size(members) - Size(pass.members0) \in {-1, 0, 1}
        /\ (Size(pass.members0) = 3 /\ spec.Size = 7) => Size(members) <= 4

\* a pass that grew the membership from 3 to 4 with spec size 7
C4_Witness ==
    /\ pass.ran
    /\ Size(pass.members0) = 3
    /\ spec.Size = 7
    /\ Size(members) = 4

OldPods0 == {n \in Running0 : pass.pods0[n] # spec.Version}

\* C6 (as stated): when the pods equal the membership and the check finds
\* the live configuration equal to the membership's, the pass ends without
\* touching scaling or upgrade: no member added or removed, no upgrade
\* started, no condition changed.
C6_NoopCheckEndsPass ==
    CheckNoop =>
        /\ members = pass.members0
        /\ Calls("create") = {}
        /\ Calls("delete") = {}
        /\ Conditions(status) = Conditions(pass.status0)

\* C6 (amended): when the pods equal the membership and the check is a
\* no-op, the pass goes on to the scaling and upgrade logic in the same
\* pass: below spec.Size it sets Scaling and adds one member, above it sets
\* Scaling and removes one, at spec.Size it clears Scaling and, with a pod
\* on another version, sets Upgrading and starts one member's upgrade, and
\* otherwise clears Upgrading, records spec.Version and sets Ready.
C6_NoopCheckContinues ==
    CheckNoop =>
        /\ Size(pass.members0) < spec.Size =>
              /\ AddsDone # {}
              /\ status.Scaling =
                    {[dir |-> "up", from |-> Size(pass.members0), to |-> spec.Size]}
              /\ Size(members) = Size(pass.members0) + 1
        /\ Size(pass.members0) > spec.Size =>
              /\ MemberDeletes # {}
              /\ status.Scaling =
                    {[dir |-> "down", from |-> Size(pass.members0), to |-> spec.Size]}
              /\ Size(members) = Size(pass.members0) - 1
        /\ (Size(pass.members0) = spec.Size /\ OldPods0 # {}) =>
              /\ status.Scaling = {}
              /\ status.Upgrading =
                    {[from |-> pass.status0.CurrentVersion, to |-> spec.Version]}
              /\ ~(status.Ready /\ ~pass.status0.Ready)
        /\ (Size(pass.members0) = spec.Size /\ OldPods0 = {}) =>
              /\ Len(pass.eff) = 1
              /\ pass.err = Nil
              /\ status.Ready
              /\ status.Scaling = {}
              /\ status.Upgrading = {}
              /\ status.CurrentVersion = spec.Version

\* a pass whose check was a no-op and that added a member
C6_Witness ==
    /\ CheckNoop
    /\ AddsDone # {}
    /\ pass.err = Nil
    /\ Size(members) = Size(pass.members0) + 1

\* the pass reached the replace-dead step: every unknown pod was deleted,
\* some known member has no running pod, and the running ones are a quorum
ReplaceStep ==
    /\ pass.ran
    /\ Size(L0) # Size(pass.members0)
    /\ Size(L0) >= Quorum(Size(pass.members0))
    /\ {pass.eff[i].name : i \in {j \in PruneDeletes : pass.eff[j].ok}} = Unknown0

C8_RecoveryFreshIdentity ==
    (/\ pass.ran
     /\ pass.members0 = {<<ClusterName, 1>>, <<ClusterName, 2>>, <<ClusterName, 3>>}
     /\ Running0 = {<<ClusterName, 2>>, <<ClusterName, 3>>}
     /\ pass.err = Nil) =>
        DOMAIN pods = {<<ClusterName, 2>>, <<ClusterName, 3>>, <<ClusterName, 4>>}

\* the pass removed a member to scale down / added a member to scale up
ScaleDownPass ==
    /\ pass.ran
    /\ Size(L0) = Size(pass.members0)
    /\ Size(pass.members0) > spec.Size
    /\ members # pass.members0

ScaleUpPass == pass.ran /\ AddsDone # {}

\* C9: in a scale-down pass the Reconfigure carrying the reduced
\* membership is issued before the removed member's pod is deleted; in a
\* scale-up pass the new member's pod is created and no Reconfigure is
\* issued.
C9_SideEffectOrder ==
    /\ ScaleDownPass =>
          \E i \in MemberDeletes :
              /\ members = pass.members0 \ {pass.eff[i].name}
              /\ pass.eff[i].wait
              /\ i > 1
              /\ pass.eff[i - 1].op = "reconfig"
              /\ pass.eff[i - 1].cfg = ClusterConfig(members)
              /\ i = Len(pass.eff)
              /\ \A j \in Calls("reconfig") : j < i
    /\ ScaleUpPass =>
          /\ Calls("reconfig") = {}
          /\ Size(pass.members0) < spec.Size
          /\ \E i \in AddsDone :
                /\ i = Len(pass.eff)
                /\ pass.eff[i].name = newMember(pass.members0)
                /\ members = pass.members0 \cup {pass.eff[i].name}

\* a scale-down pass whose Reconfigure and pod deletion both succeeded
C9_Witness ==
    /\ ScaleDownPass
    /\ pass.err = Nil
    /\ \E i \in Calls("reconfig") : pass.eff[i].ok
    /\ \E i \in MemberDeletes : pass.eff[i].ok

\* C10: a ConnectError or ProtocolError of the ensemble client (ReadConfig,
\* or Reconfigure in the check or in a scale-down removal) aborts the pass:
\* the error is returned and no pod is deleted or created after the failed
\* call.
C10_ClientErrorAborts ==
    pass.ran =>
        \A i \in Calls("read") \cup Calls("reconfig") :
            (/\ ~pass.eff[i].ok
             /\ \/ pass.eff[i].op = "read"
                \/ CheckMismatch
                \/ Size(pass.members0) > spec.Size) =>
                /\ pass.err \in ZkErrors
                /\ \A j \in Calls("delete") \cup Calls("create") : j < i

\* the pass went into reconcileMembers and deleted every unknown pod
ReachedMembers ==
    /\ pass.ran
    /\ \/ ~IsEqual(Running0, pass.members0)
       \/ CheckNoop /\ Size(pass.members0) # spec.Size
    /\ {pass.eff[i].name : i \in {j \in PruneDeletes : pass.eff[j].ok}} = Unknown0

\* C11: the quorum decision of reconcileMembers, for N known members of
\* which k are running: k = N goes to resize (add one below spec.Size,
\* remove one above, nothing at spec.Size); k # N and k < floor(N/2)+1
\* returns LostQuorum and touches no member; otherwise a dead member is
\* replaced.  N = 5: k = 2 is LostQuorum, k = 3 is replace-dead.
C11_QuorumDecision ==
    ReachedMembers =>
        LET N == Size(pass.members0)
            k == Size(L0)
        IN  /\ k = N =>
                  /\ pass.err # ErrLostQuorum
                  /\ ReplacesDone = {}
                  /\ N < spec.Size => (AddsDone # {} /\ MemberDeletes = {})
                  /\ N > spec.Size =>
                        (Calls("create") = {} /\ Calls("reconfig") # {} /\ RemovesDone # {})
                  /\ N = spec.Size =>
                        (pass.err = Nil /\ Calls("create") = {} /\ MemberDeletes = {})
            /\ (k # N /\ k < Quorum(N)) =>
                  /\ pass.err = ErrLostQuorum
                  /\ MemberDeletes = {}
                  /\ Calls("create") = {}
            /\ (k # N /\ k >= Quorum(N)) =>
                  /\ pass.err # ErrLostQuorum
                  /\ ReplacesDone # {}
                  /\ AddsDone = {}
            /\ (N = 5 /\ k = 2) => pass.err = ErrLostQuorum
            /\ (N = 5 /\ k = 3) => (pass.err # ErrLostQuorum /\ ReplacesDone # {})

\* five members, three of them running: a dead member was replaced
C11_Witness ==
    /\ ReachedMembers
    /\ Size(pass.members0) = 5
    /\ Size(L0) = 3
    /\ ReplacesDone # {}
    /\ pass.err = Nil

\* a majority of the known members is running
MajorityRunning ==
    Size(Diff(members, Diff(members, DOMAIN pods))) >= Quorum(Size(members))

SizeConverged == Size(members) = spec.Size /\ DOMAIN pods = members

\* C12: with spec.Size fixed, a majority of the known members running at
\* all times, only finitely many failed calls and the passes scheduled
\* fairly, the system reaches a state, which it then keeps, where
\* members.Size() equals spec.Size and the running pods are exactly the
\* members.
C12_SizeConvergence ==
    (PassesRun /\ []MajorityRunning) => <>[]SizeConverged

\* a cluster scaled down from 5 members to 3 and at rest
C12_Witness ==
    /\ pass.ran
    /\ SizeConverged
    /\ spec = [Size |-> 3, Version |-> "3.4.0"]
    /\ MaxMemberID(members) = 5
    /\ status.Ready
    /\ Len(pass.eff) = 1

\* every member of the membership has a running pod
AllRunning == members \subseteq DOMAIN pods

\* C13: while a majority of the known members keeps running (fewer than
\* half lose their pods), with finitely many failed calls and the passes
\* scheduled fairly, a state where some member has no pod is followed by
\* one where every member has a running pod, and no pass returns
\* LostQuorum.
C13_MinorityCrashRecovery ==
    (PassesRun /\ []MajorityRunning) =>
        /\ [](pass.ran => pass.err # ErrLostQuorum)
        /\ (~AllRunning ~> AllRunning)

\* three members, one pod crashed, and a pass that brought it back
C13_Witness ==
    /\ pass.ran
    /\ Size(pass.members0) = 3
    /\ Size(L0) = 2
    /\ ReplacesDone # {}
    /\ pass.err = Nil
    /\ AllRunning
    /\ MajorityRunning

\* the ensemble is on spec.Version and at rest
Upgraded ==
    /\ \A n \in DOMAIN pods : pods[n] = spec.Version
    /\ status.Upgrading = {}
    /\ status.CurrentVersion = spec.Version
    /\ status.Ready
    /\ pass.ran => (Calls("delete") = {} /\ Calls("create") = {})

C15_NeedUpgradeIff ==
    ret.op = "needUpgrade" =>
        (ret.bool <=>
            /\ Cardinality(DOMAIN pods) = spec.Size
            /\ \E n \in DOMAIN pods : pods[n] # spec.Version)

\* three pods, spec.Size 3, one pod on another version: upgrade needed
C15_Witness ==
    /\ ret.op = "needUpgrade"
    /\ ret.bool
    /\ Cardinality(DOMAIN pods) = 3
    /\ Cardinality({n \in DOMAIN pods : pods[n] # spec.Version}) = 1

\* the pass found the pods equal to the membership, the membership at
\* spec.Size and a pod on another version than spec.Version
EqualAndOld ==
    /\ pass.ran
    /\ IsEqual(Running0, pass.members0)
    /\ Size(pass.members0) = spec.Size
    /\ OldPods0 # {}

C17_SizeRefreshedOnExit ==
    pass.ran => status.Size = Size(members)

\* a pass that returned an error after it changed the membership's size
C17_Witness ==
    /\ pass.ran
    /\ pass.err # Nil
    /\ Size(members) # Size(pass.members0)
    /\ pass.status0.Size = Size(pass.members0)
    /\ status.Size = Size(members)

\* the pass that ran set Ready: run from where it started with Ready
\* lowered, the same pass (same calls, same result) ends with Ready set
SetsReady ==
    /\ pass.ran
    /\ \E podList \in Listings(pass.pods0) :
          \E o \in reconcile([members |-> pass.members0, pods |-> pass.pods0,
                              zk |-> pass.zk0,
                              status |-> [pass.status0 EXCEPT !.Ready = FALSE],
                              eff |-> <<>>], podList, spec) :
              /\ o.s.eff = pass.eff
              /\ o.err = pass.err
              /\ o.s.members = members
              /\ o.s.pods = pods
              /\ o.s.zk = zkServers
              /\ [o.s.status EXCEPT !.Ready = status.Ready] = status
              /\ o.s.status.Ready

\* the pass got as far as evaluating the upgrade need
EvaluatesUpgrade ==
    /\ CheckNoop
    /\ Size(pass.members0) = spec.Size

\* C18: a pass that evaluates the upgrade need has cleared the Scaling
\* condition, whether it then upgrades (or fails to) or sets Ready; Ready
\* is set, with Upgrading cleared and the current version spec.Version,
\* only in a pass that found the pods equal to the membership,
\* members.Size() = spec.Size and no pod on another version, and that pass
\* neither scales, replaces, upgrades nor fails.
C18_ConditionOrdering ==
    /\ EvaluatesUpgrade => status.Scaling = {}
    /\ SetsReady =>
          /\ IsEqual(Running0, pass.members0)
          /\ Size(pass.members0) = spec.Size
          /\ OldPods0 = {}
          /\ status.Ready
          /\ status.Upgrading = {}
          /\ status.Scaling = {}
          /\ status.CurrentVersion = spec.Version
          /\ pass.err = Nil
          /\ Calls("delete") = {}
          /\ Calls("create") = {}
          /\ Calls("reconfig") = {}
          /\ members = pass.members0
    /\ (pass.ran /\ ~SetsReady) => status.Ready = pass.status0.Ready

\* the pass that ends an upgrade to 3.5.3: Upgrading was set, every pod is
\* on 3.5.3, and the pass cleared Upgrading and set Ready
C18_Witness ==
    /\ SetsReady
    /\ ~pass.status0.Ready
    /\ pass.status0.Upgrading = {[from |-> "3.4.0", to |-> "3.5.3"]}
    /\ pass.status0.CurrentVersion = "3.4.0"
    /\ status.Ready
    /\ status.Upgrading = {}
    /\ status.CurrentVersion = "3.5.3"
    /\ Size(members) >= 2

\* C19: a step that handles a Modified event leaves the cached object
\* equal to the object the event carried (the cached resource version is
\* the event's, the cached spec is the event's) and changes nothing else:
\* the pods, the membership, the live configuration and the status are as
\* they were.
C19_UpdateEventOnlyReplacesObject ==
    [][event' # event =>
          /\ event'.typ = "eventModifyCluster"
          /\ resourceVersion' = event'.rv
          /\ spec' = event'.spec
          /\ members' = members
          /\ pods' = pods
          /\ zkServers' = zkServers
          /\ status' = status]_vars

\* a Modified event with resource version 321 was handled: the cached
\* object is the event's, it asks for another size than the membership
\* has, and no pass has run since
C19_Witness ==
    /\ event.typ = "eventModifyCluster"
    /\ event.rv = "321"
    /\ resourceVersion = "321"
    /\ spec = event.spec
    /\ spec.Size # Size(members)
    /\ members = DOMAIN pods
    /\ ~pass.ran

\* the names of a member set
NamesOf(ms) == DOMAIN ms

\* C20: for member sets A and B, A.Diff(B) holds exactly the members of A
\* whose name is not in B, A.Diff(B).Diff(A) and A.Diff(A) are empty,
\* A.IsEqual(A) is true, and A.IsEqual(B) is true exactly when A and B
\* have the same names, whatever the other fields of their members are.
C20_MemberSetAlgebra ==
    /\ ret.op = "Diff" =>
          /\ NamesOf(ret.ms) = {n \in NamesOf(ret.a) : n \notin NamesOf(ret.b)}
          /\ \A n \in NamesOf(ret.ms) : ret.ms[n] = ret.a[n]
          /\ MemberSet_Size(MemberSet_Diff(ret.ms, ret.a)) = 0
          /\ MemberSet_Size(MemberSet_Diff(ret.a, ret.a)) = 0
          /\ NamesOf(ret.ms) = Diff(NamesOf(ret.a), NamesOf(ret.b))
    /\ ret.op = "IsEqual" =>
          /\ ret.bool <=> (NamesOf(ret.a) = NamesOf(ret.b))
          /\ MemberSet_IsEqual(ret.a, ret.a)
          /\ MemberSet_IsEqual(ret.b, ret.b)
          /\ ret.bool <=> IsEqual(NamesOf(ret.a), NamesOf(ret.b))

\* two sets of the same two names whose members differ in the namespace
\* were found equal
C20_Witness ==
    /\ ret.op = "IsEqual"
    /\ ret.bool
    /\ MemberSet_Size(ret.a) = 2
    /\ ret.a # ret.b
    /\ NamesOf(ret.a) = NamesOf(ret.b)

\* the name ends in "-" and the decimal digits of k
EndsInID(name, k) ==
    LET d == Itoa(k)
    IN  /\ Len(name) > Len(d)
        /\ SubSeq(name, Len(name) - Len(d) + 1, Len(name)) = d
        /\ Char(name, Len(name) - Len(d)) = "-"

\* C21: MaxID is 0 for the empty set and otherwise the highest ID a
\* member's name ends in; the member newMember allocates is named
\* <clusterName>-(MaxID+1), and neither that name nor that ID is in the
\* membership it was allocated for.
C21_MaxIDAndAllocation ==
    ret.op = "newMember" =>
        /\ DOMAIN ret.a = {} => ret.n = 0
        /\ DOMAIN ret.a # {} =>
              /\ \E n \in DOMAIN ret.a : EndsInID(n, ret.n)
              /\ \A n \in DOMAIN ret.a : \E k \in 0..ret.n : EndsInID(n, k)
        /\ DOMAIN ret.ms = {spec.Name \o "-" \o Itoa(ret.n + 1)}
        /\ \A n \in DOMAIN ret.ms :
              /\ n \notin DOMAIN ret.a
              /\ Member_ID(ret.ms[n]) = ret.n + 1
              /\ \A k \in DOMAIN ret.a : Member_ID(ret.a[k]) # ret.n + 1

\* {name-3, name-7, name-1}: MaxID 7, the next member is name-8
C21_Witness ==
    /\ ret.op = "newMember"
    /\ DOMAIN ret.a = {"name-3", "name-7", "name-1"}
    /\ ret.n = 7
    /\ DOMAIN ret.ms = {"name-8"}

\* the list is in the order of sort.Strings
Sorted(list) ==
    \A i \in DOMAIN list : \A j \in DOMAIN list :
        i < j => ~StringLess(list[j], list[i])

\* the text of the server line of the member named n of this cluster
ExpectedLine(n, k) ==
    LET addr == n \o "." \o spec.Name \o "." \o spec.Namespace \o ".svc"
    IN  "server." \o Itoa(k) \o "=" \o addr \o ":2888:3888:participant;"
                  \o addr \o ":2181"

\* C22: two calls of ClusterConfig on a membership, whatever the orders in
\* which its members were inserted and are iterated, return the same
\* list, which is sorted and holds exactly one server line per member.
C22_ClusterConfigDeterministic ==
    ret.op = "ClusterConfig" =>
        /\ ret.list = ret.list2
        /\ Sorted(ret.list)
        /\ Len(ret.list) = MemberSet_Size(ret.a)
        /\ \A n \in DOMAIN ret.a :
              \E k \in UnitIds :
                  /\ n = spec.Name \o "-" \o Itoa(k)
                  /\ Cardinality({i \in DOMAIN ret.list :
                                     ret.list[i] = ExpectedLine(n, k)}) = 1

\* three members iterated in two different orders: the same three lines,
\* server.10 before server.1 as sort.Strings has them
C22_Witness ==
    /\ ret.op = "ClusterConfig"
    /\ DOMAIN ret.a = {"name-1", "name-3", "name-10"}
    /\ ret.order # ret.order2
    /\ ret.list = ret.list2
    /\ spec.Namespace = "default"
    /\ ret.list[1] =
          "server.10=name-10.name.default.svc:2888:3888:participant;name-10.name.default.svc:2181"
    /\ ret.list[2] =
          "server.1=name-1.name.default.svc:2888:3888:participant;name-1.name.default.svc:2181"

\* C23: ClientHostList returns its "host:2181" entries sorted, so two
\* calls on member sets with the same names return the same list.
C23_ClientHostListSorted ==
    ret.op = "ClientHostList" =>
        /\ Sorted(ret.list)
        /\ Sorted(ret.list2)
        /\ ret.list = ret.list2

\* the pass reached the replace-dead step: it got through the pruning,
\* found L smaller than the membership and the quorum present
ReplaceReached ==
    /\ ReachedMembers
    /\ Size(L0) # Size(pass.members0)
    /\ Size(L0) >= Quorum(Size(pass.members0))

\* the known members without a running pod when the pass began
Dead0 == Diff(pass.members0, L0)

\* C24 (as stated): whenever the replace-dead step is reached, exactly one
\* known member has no running pod.
C24_ExactlyOneDead ==
    ReplaceReached => Cardinality(Dead0) = 1

\* C24 (amended): whenever the replace-dead step is reached, at least one
\* known member has no running pod and fewer than half of them have none
\* (at most N - (floor(N/2)+1) of N, which is exactly one only up to four
\* members); the step replaces exactly one of them, and it is reached in
\* no other pass.
C24_MinorityDead ==
    /\ ReplaceReached =>
          /\ Cardinality(Dead0) >= 1
          /\ Cardinality(Dead0) <= Size(pass.members0) - Quorum(Size(pass.members0))
          /\ Size(pass.members0) <= 4 => Cardinality(Dead0) = 1
          /\ Cardinality(ReplacesDone) = 1
          /\ \A i \in ReplacesDone : pass.eff[i].name \in Dead0
    /\ (pass.ran /\ ReplacesDone # {}) => ReplaceReached

\* five members of which two have no pod: one of the two was replaced
C24_Witness ==
    /\ ReplaceReached
    /\ Size(pass.members0) = 5
    /\ Cardinality(Dead0) = 2
    /\ Cardinality(ReplacesDone) = 1
    /\ pass.err = Nil
    /\ Cardinality(Diff(members, DOMAIN pods)) = 1

\* the prune deletions that failed
PruneFailures == {i \in PruneDeletes : ~pass.eff[i].ok}

\* C25: a pass that finds running pods that are no members deletes them
\* before anything else, one deletion per pod; when all deletions succeed
\* every such pod was deleted, and the pruning leaves the membership as it
\* was.  When a deletion fails the pass ends there with that error: no
\* further call is made, no quorum error is returned, no member is added,
\* removed or replaced and the conditions are as before.
C25_PruneStep ==
    (pass.ran /\ Unknown0 # {}) =>
        /\ PruneDeletes # {}
        /\ PruneDeletes = 1..Cardinality(PruneDeletes)
        /\ \A i \in PruneDeletes : \A j \in PruneDeletes :
              pass.eff[i].name = pass.eff[j].name => i = j
        /\ PruneFailures = {} =>
              {pass.eff[i].name : i \in PruneDeletes} = Unknown0
        /\ (MemberDeletes = {} /\ Calls("create") = {}) =>
              members = pass.members0
        /\ PruneFailures # {} =>
              /\ PruneFailures = {Len(pass.eff)}
              /\ pass.err = "PodDeleteError"
              /\ members = pass.members0
              /\ zkServers = pass.zk0
              /\ Calls("create") = {}
              /\ Calls("reconfig") = {}
              /\ MemberDeletes = {}
              /\ Conditions(status) = Conditions(pass.status0)
              /\ DOMAIN pods =
                    Running0 \ {pass.eff[i].name : i \in PruneDeletes \ PruneFailures}

\* five members of which two are running, and two foreign pods: the first
\* was deleted, the deletion of the second failed, and the pass returned
\* that error and not the loss of quorum
C25_Witness ==
    /\ pass.ran
    /\ Size(pass.members0) = 5
    /\ Size(L0) = 2
    /\ Cardinality(Unknown0) = 2
    /\ Len(pass.eff) = 2
    /\ pass.eff[1].ok
    /\ ~pass.eff[2].ok
    /\ pass.err = "PodDeleteError"
    /\ members = pass.members0

\* the pass reached the scale-up step: it got through the check and the
\* pruning, found every member running and fewer members than spec.Size
ScaleUpReached ==
    /\ ReachedMembers
    /\ Size(L0) = Size(pass.members0)
    /\ Size(pass.members0) < spec.Size

\* the role in the pod's own server line, the last of its ZOO_SERVERS
OwnRole(e) == e.cfg[Len(e.cfg)].role

\* C26: a scale-up step sets the Scaling condition from the current size
\* to spec.Size, adds exactly one member, the one newMember names, and
\* creates that member's pod in join state "new": its ZOO_SERVERS are the
\* config of the members before it, followed by its own server line with
\* role observer.  Every pod created in state "seed" or "replacement" has
\* role participant in its own line.
C26_ScaleUpStep ==
    /\ ScaleUpReached =>
          LET new == <<ClusterName, MaxMemberID(pass.members0) + 1>>
          IN  /\ status.Scaling =
                    {[dir |-> "up", from |-> Size(pass.members0), to |-> spec.Size]}
              /\ new \notin pass.members0
              /\ members = pass.members0 \cup {new}
              /\ Cardinality(Calls("create")) = 1
              /\ MemberDeletes = {}
              /\ \A i \in Calls("create") :
                    /\ i = Len(pass.eff)
                    /\ pass.eff[i].name = new
                    /\ pass.eff[i].state = "new"
                    /\ Len(pass.eff[i].cfg) = Size(pass.members0) + 1
                    /\ SubSeq(pass.eff[i].cfg, 1, Size(pass.members0)) =
                          ClusterConfig(pass.members0)
                    /\ pass.eff[i].cfg[Len(pass.eff[i].cfg)] = ServerLine(new, "observer")
                    /\ pass.eff[i].ok <=> pass.err = Nil
                    /\ pass.eff[i].ok => (new \in DOMAIN pods /\ pods[new] = spec.Version)
    /\ pass.ran =>
          \A i \in Calls("create") :
              /\ pass.eff[i].state \in {"seed", "replacement"} =>
                    OwnRole(pass.eff[i]) = "participant"
              /\ pass.eff[i].state = "new" =>
                    (OwnRole(pass.eff[i]) = "observer" /\ ScaleUpReached)

\* two members, spec.Size 3: the third member was added and its pod
\* created as an observer
C26_Witness ==
    /\ ScaleUpReached
    /\ pass.err = Nil
    /\ Size(pass.members0) = 2
    /\ spec.Size = 3
    /\ Size(members) = 3
    /\ <<ClusterName, 3>> \in DOMAIN pods
    /\ \E i \in Calls("create") :
          pass.eff[i].state = "new" /\ OwnRole(pass.eff[i]) = "observer"

\* C27: pickOneOldMember returns the first pod of the listing whose
\* version is not the target version, and none when every pod is on the
\* target version; the pod it returns is never on the target version.
C27_FirstOldPod ==
    ret.op = "pickOneOldMember" =>
        LET old == {i \in DOMAIN ret.order : ret.a[ret.order[i]] # spec.Version}
        IN  /\ old = {} <=> ret.m = NoMember
            /\ old # {} =>
                  \E i \in old :
                      /\ ret.order[i] = ret.m
                      /\ \A j \in 1..(i - 1) : ret.a[ret.order[j]] = spec.Version
            /\ ret.m # NoMember =>
                  (ret.m \in DOMAIN ret.a /\ ret.a[ret.m] # spec.Version)

\* three pods, the first listed on the target version and the two after
\* it not: the second of the listing is returned
C27_Witness ==
    /\ ret.op = "pickOneOldMember"
    /\ Len(ret.order) = 3
    /\ ret.a[ret.order[1]] = spec.Version
    /\ ret.a[ret.order[2]] # spec.Version
    /\ ret.a[ret.order[3]] # spec.Version
    /\ ret.m = ret.order[2]

\* the pass reached the scale-down step
ScaleDownReached ==
    /\ ReachedMembers
    /\ Size(L0) = Size(pass.members0)
    /\ Size(pass.members0) > spec.Size

\* C28: no pass calls PickOne on an empty set: at the replace-dead step L
\* is a proper subset of the membership, so members.Diff(L) has a member
\* to pick, and at the scale-down step the membership is larger than
\* spec.Size >= 1; no pass ends in the panic of PickOne.
C28_PickOneNeverEmpty ==
    pass.ran =>
        /\ spec.Size >= 1
        /\ pass.err # "EmptySetError"
        /\ ReplaceReached =>
              /\ L0 \subseteq pass.members0
              /\ L0 # pass.members0
              /\ Dead0 # {}
              /\ \E i \in ReplacesDone : pass.eff[i].name \in Dead0
        /\ ScaleDownReached =>
              /\ pass.members0 # {}
              /\ \E i \in MemberDeletes : pass.eff[i].name \in pass.members0

\* a scale-down from three members to spec.Size 1: PickOne had three
\* members to pick from and one was removed
C28_Witness ==
    /\ ScaleDownReached
    /\ Size(pass.members0) = 3
    /\ spec.Size = 1
    /\ Size(members) = 2
    /\ pass.err = Nil

\* the pass began in the converged state
Converged0 ==
    /\ pass.ran
    /\ IsEqual(Running0, pass.members0)
    /\ StripAndSort(Payload(pass.zk0)) = ClusterConfig(pass.members0)
    /\ Size(pass.members0) = spec.Size
    /\ OldPods0 = {}

\* a pass run again from the state as it is, its read of the live config
\* succeeding, returns success and ends in the same state
RerunSame ==
    \A podList \in Listings(pods) :
        \A o \in reconcile([members |-> members, pods |-> pods, zk |-> zkServers,
                            status |-> status, eff |-> <<>>], podList, spec) :
            o.s.eff[1].ok =>
                /\ o.err = Nil
                /\ Len(o.s.eff) = 1
                /\ o.s.members = members
                /\ o.s.pods = pods
                /\ o.s.zk = zkServers
                /\ o.s.status = status

\* C29 (as stated): a pass from the converged state creates and deletes
\* no pod, issues no Reconfigure, leaves the membership unchanged and
\* returns success, and run again it ends in the same state.
C29_ConvergedPassSucceeds ==
    Converged0 =>
        /\ Calls("create") = {}
        /\ Calls("delete") = {}
        /\ Calls("reconfig") = {}
        /\ members = pass.members0
        /\ pass.err = Nil
        /\ RerunSame

\* C29 (amended): a pass from the converged state (pods equal to the membership,
\* live config equal to the membership's, members.Size() = spec.Size,
\* every pod on spec.Version) only reads the live config: it creates and
\* deletes no pod, issues no Reconfigure and leaves membership, pods and
\* live config as they were.  When the read succeeds it returns success,
\* and the pass run again from the resulting state ends in that same
\* state; when the read fails it returns the read's error and the status
\* is unchanged as well.
C29_ConvergedPassIdempotent ==
    Converged0 =>
        /\ Len(pass.eff) = 1
        /\ pass.eff[1].op = "read"
        /\ members = pass.members0
        /\ pods = pass.pods0
        /\ zkServers = pass.zk0
        /\ pass.eff[1].ok =>
              /\ pass.err = Nil
              /\ status.Ready
              /\ status.Scaling = {}
              /\ status.Upgrading = {}
              /\ status.CurrentVersion = spec.Version
              /\ RerunSame
        /\ ~pass.eff[1].ok =>
              /\ pass.err \in ZkErrors
              /\ status = pass.status0

\* a pass from the converged state of three upgraded members that was
\* itself a re-run: the status it found is the status it left
C29_Witness ==
    /\ Converged0
    /\ pass.err = Nil
    /\ Size(members) = 3
    /\ spec.Version = "3.5.3"
    /\ pass.status0.Ready
    /\ status = pass.status0

\* the member set the live config was serialized from
LiveSet == NewMemberSet(DOMAIN pods, spec.Namespace)

\* C30: updateMembers leaves as membership the set whose names are the
\* host names of the server lines it read, each member in the cluster's
\* namespace; read from the config a member set M serializes to, the
\* rebuilt set is IsEqual to M and has M's MaxID; when the read fails the
\* membership is as it was and the error is returned.
C30_RecoveryRoundTrip ==
    ret.op = "updateMembers" =>
        /\ ret.err # Nil => (members = ret.a /\ ret.err \in ZkErrors)
        /\ ret.err = Nil =>
              /\ \A n \in DOMAIN members :
                    /\ members[n] = Member(n, spec.Namespace)
                    /\ \E k \in UnitIds :
                          /\ n = spec.Name \o "-" \o Itoa(k)
                          /\ \E i \in DOMAIN ret.list : ret.list[i] = ExpectedLine(n, k)
              /\ \A i \in DOMAIN ret.list :
                    \E n \in DOMAIN members, k \in UnitIds :
                        ret.list[i] = ExpectedLine(n, k)
              /\ ret.list = MemberSet_ClusterConfig(LiveSet, SetToSeq(DOMAIN LiveSet))
              /\ MemberSet_IsEqual(members, LiveSet)
              /\ MemberSet_IsEqual(LiveSet, members)
              /\ MemberSet_MaxMemberID(members) = MemberSet_MaxMemberID(LiveSet)
              /\ MemberSet_ClusterConfig(members, SetToSeq(DOMAIN members)) = ret.list

\* the operator knew name-1 only; the ensemble is name-1, name-3, name-10
\* and the membership was rebuilt to these three, MaxID 10
C30_Witness ==
    /\ ret.op = "updateMembers"
    /\ ret.err = Nil
    /\ DOMAIN ret.a = {"name-1"}
    /\ Len(ret.list) = 3
    /\ DOMAIN members = {"name-1", "name-3", "name-10"}
    /\ MemberSet_MaxMemberID(members) = 10

\* the pass that ran started an upgrade step: run from where it started
\* with the Upgrading condition and the target version cleared, the same
\* pass (same calls, same result) ends with the Upgrading condition set
StartsUpgrade ==
    /\ pass.ran
    /\ \E podList \in Listings(pass.pods0) :
          \E o \in reconcile([members |-> pass.members0, pods |-> pass.pods0,
                              zk |-> pass.zk0,
                              status |-> [pass.status0 EXCEPT !.Upgrading = {},
                                                              !.TargetVersion = ""],
                              eff |-> <<>>], podList, spec) :
              /\ o.s.eff = pass.eff
              /\ o.err = pass.err
              /\ o.s.members = members
              /\ o.s.pods = pods
              /\ o.s.zk = zkServers
              /\ o.s.status = status
              /\ o.s.status.Upgrading # {}

\* the pass set a Scaling condition: run with Scaling cleared, it ends
\* with Scaling set
SetsScaling ==
    /\ pass.ran
    /\ \E podList \in Listings(pass.pods0) :
          \E o \in reconcile([members |-> pass.members0, pods |-> pass.pods0,
                              zk |-> pass.zk0,
                              status |-> [pass.status0 EXCEPT !.Scaling = {}],
                              eff |-> <<>>], podList, spec) :
              /\ o.s.eff = pass.eff
              /\ o.err = pass.err
              /\ o.s.members = members
              /\ o.s.pods = pods
              /\ o.s.zk = zkServers
              /\ o.s.status = status
              /\ o.s.status.Scaling # {}

\* C31: a pass that starts an upgrade step found the running pods equal to
\* the membership and members.Size() = spec.Size; the pod it deletes is
\* the pod of a member of that membership on another version than
\* spec.Version, and the pass performs no scaling or replace action: it
\* prunes nothing, adds no new member, replaces no dead member and sets no
\* Scaling condition; conversely a pass that scales or replaces starts no
\* upgrade.
C31_UpgradeOnlyWhenSettled ==
    /\ StartsUpgrade =>
          /\ IsEqual(Running0, pass.members0)
          /\ Running0 = pass.members0
          /\ Size(pass.members0) = spec.Size
          /\ \A i \in Calls("delete") :
                /\ pass.eff[i].name \in pass.members0
                /\ pass.eff[i].name \in OldPods0
                /\ pass.eff[i].wait
          /\ Cardinality(Calls("delete")) <= 1
          /\ \A i \in Calls("create") :
                /\ pass.eff[i].state = "replacement"
                /\ \E j \in Calls("delete") :
                      j < i /\ pass.eff[j].name = pass.eff[i].name
          /\ PruneDeletes = {}
          /\ AddsDone = {}
          /\ ReplacesDone = {}
          /\ status.Scaling = {}
          /\ ~SetsScaling
          /\ Size(members) \in {Size(pass.members0), Size(pass.members0) - 1}
          /\ pass.err = Nil => members = pass.members0
    /\ (pass.ran /\ (AddsDone # {} \/ ReplacesDone # {} \/ PruneDeletes # {}
                       \/ SetsScaling)) =>
          /\ ~StartsUpgrade
          /\ status.Upgrading = pass.status0.Upgrading
          /\ status.TargetVersion = pass.status0.TargetVersion

\* a second upgrade step: the Upgrading condition was already set when the
\* pass began, one pod was on spec.Version and the pass moved another
C31_Witness ==
    /\ StartsUpgrade
    /\ pass.err = Nil
    /\ pass.status0.Upgrading # {}
    /\ UpgradesDone # {}
    /\ Cardinality(OldPods0) = Size(pass.members0) - 1
    /\ Cardinality({n \in DOMAIN pods : pods[n] # spec.Version}) = Cardinality(OldPods0) - 1

\* the pass p found the pods equal to the membership, read a live
\* configuration other than the membership's and pushed the membership's
\* with success
PushedOk(p) ==
    /\ p.ran
    /\ IsEqual(DOMAIN p.pods0, p.members0)
    /\ Len(p.eff) = 2
    /\ p.eff[1].op = "read"
    /\ p.eff[1].ok
    /\ p.eff[2].op = "reconfig"
    /\ p.eff[2].ok
    /\ p.eff[2].cfg = ClusterConfig(p.members0)
    /\ p.err = Nil

\* the Reconfigure calls of the pass p that push the whole membership
Pushes(p) ==
    {i \in DOMAIN p.eff : p.eff[i].op = "reconfig"
                            /\ p.eff[i].cfg = ClusterConfig(p.members0)}

\* C32: right after a pass whose check pushed the membership's config with
\* success the live configuration is that config, and what a read returns
\* of it (version line stripped, lines sorted) is the membership's config
\* with one line per member; the next pass, on the same pods and
\* membership, reads first and, when the read succeeds, does not push the
\* membership's config again: a Reconfigure it issues is that of a removal
\* (scale-down or upgrade), without one member and followed by the
\* deletion of its pod.
C32_CheckDoesNotLoop ==
    [][(PushedOk(pass) /\ pass'.ran) =>
          /\ pass'.members0 = pass.members0
          /\ pass'.pods0 = pass.pods0
          /\ pass'.zk0 = Range(ClusterConfig(pass.members0))
          /\ StripAndSort(Payload(pass'.zk0)) = ClusterConfig(pass'.members0)
          /\ Len(StripAndSort(Payload(pass'.zk0))) = Size(pass'.members0)
          /\ pass'.eff # <<>>
          /\ pass'.eff[1].op = "read"
          /\ Pushes(pass') = {}
          /\ ~pass'.eff[1].ok => (Len(pass'.eff) = 1 /\ pass'.err \in ZkErrors)
          /\ \A i \in DOMAIN pass'.eff :
                pass'.eff[i].op = "reconfig" =>
                    /\ i = 2
                    /\ Len(pass'.eff) >= 3
                    /\ pass'.eff[3].op = "delete"
                    /\ pass'.eff[3].name \in pass'.members0
                    /\ pass'.eff[2].cfg =
                          ClusterConfig(pass'.members0 \ {pass'.eff[3].name})]_vars

\* a pass found the check a no-op on a live configuration that holds the
\* server of c-4, a member added after the cluster was created with at
\* most 3 seeds: only a push of the check can have put it there
C32_Witness ==
    /\ CheckNoop
    /\ Pushes(pass) = {}
    /\ pass.err = Nil
    /\ <<ClusterName, 4>> \in pass.members0
    /\ pass.zk0 = Range(ClusterConfig(pass.members0))
    /\ Size(pass.members0) = 4

\* the pass p ended on a pod creation that failed
CreateFailed(p) ==
    /\ p.ran
    /\ p.eff # <<>>
    /\ p.eff[Len(p.eff)].op = "create"
    /\ ~p.eff[Len(p.eff)].ok

\* the known members of the pass p that had no running pod when it began
DeadOf(p) == p.members0 \ DOMAIN p.pods0

\* after the failed pass: a pass that ended on a failed pod creation
\* returned the error "fail to create member's pod (<name>): <cause>" with
\* the name of the member being added, and the member is in the
\* membership with no pod running: a new member (scale-up) was inserted,
\* growing the membership by one, and a re-added member (replacement) is
\* in the membership as it was before the pass.
FailedAddKeepsMember ==
    CreateFailed(pass) =>
        LET c == pass.eff[Len(pass.eff)]
        IN  /\ pass.err = "fail to create member's pod (" \o ClusterName \o "-"
                             \o Itoa(c.name[2]) \o "): PodCreateError"
            /\ c.name \in members
            /\ c.name \notin DOMAIN pods
            /\ Cardinality(Calls("create")) = 1
            /\ c.state = "new" =>
                  /\ c.name \notin pass.members0
                  /\ members = pass.members0 \cup {c.name}
                  /\ DOMAIN pods = DOMAIN pass.pods0 \cap pass.members0
            /\ c.state # "new" =>
                  /\ c.state = "replacement"
                  /\ c.name \in pass.members0
                  /\ members = pass.members0

\* the pass after it: the next pass starts from that membership with
\* the member known and not running; it takes the quorum check, sets no
\* Scaling condition and adds no new member: with fewer than
\* floor(|members|/2)+1 members running it returns LostQuorum and calls
\* nothing, otherwise it replaces a known member that has no running pod
\* (forced deletion, then creation as a replacement under the same name),
\* the failed member itself when it is the only one; when that deletion
\* fails the pass fails and the member is out of the membership.
NextPassReplaces ==
    (CreateFailed(pass) /\ pass'.ran) =>
          LET m == pass.eff[Len(pass.eff)].name
              p == pass'
              running == Cardinality(DOMAIN p.pods0)
          IN  /\ p.members0 = members
              /\ m \in DeadOf(p)
              /\ DOMAIN p.pods0 \subseteq p.members0
              /\ status'.Scaling = status.Scaling
              /\ status'.Upgrading = status.Upgrading
              /\ \A i \in DOMAIN p.eff :
                    p.eff[i].op = "create" => p.eff[i].state = "replacement"
              /\ \A i \in DOMAIN p.eff : p.eff[i].op \notin {"read", "reconfig"}
              /\ running < Quorum(Size(p.members0)) =>
                    (p.err = ErrLostQuorum /\ p.eff = <<>> /\ members' = members)
              /\ running >= Quorum(Size(p.members0)) =>
                    /\ p.err # ErrLostQuorum
                    /\ p.eff # <<>>
                    /\ p.eff[1].op = "delete"
                    /\ ~p.eff[1].wait
                    /\ p.eff[1].name \in DeadOf(p)
                    /\ DeadOf(p) = {m} => p.eff[1].name = m
                    /\ p.eff[1].ok =>
                          /\ Len(p.eff) = 2
                          /\ p.eff[2].op = "create"
                          /\ p.eff[2].name = p.eff[1].name
                          /\ p.eff[2].state = "replacement"
                          /\ members' = members
                    /\ ~p.eff[1].ok =>
                          /\ Len(p.eff) = 1
                          /\ p.err \notin {Nil, ErrLostQuorum}
                          /\ members' = members \ {p.eff[1].name}

\* C33: when the pod creation of an add (scale-up or re-add of a
\* replacement) fails, the pass fails with an error that names the member
\* and the member, inserted before the creation, stays in the membership;
\* the pass after it sees it as a known member without a running pod and
\* handles it through the quorum check and replace-dead, never through
\* scale-up.
C33_FailedAddThenReplace ==
    []FailedAddKeepsMember /\ [][NextPassReplaces]_vars

\* three members at spec size 7: the pod of the new member c-4 could not
\* be created, the pass returned the error naming c-4 and c-4 is a member
\* without a pod
C33_Witness ==
    /\ CreateFailed(pass)
    /\ pass.err = "fail to create member's pod (c-4): PodCreateError"
    /\ pass.eff[Len(pass.eff)].state = "new"
    /\ Size(pass.members0) = 3
    /\ members = pass.members0 \cup {<<ClusterName, 4>>}
    /\ DOMAIN pods = pass.members0

\* C34: every pod a pass created runs, by its version annotation, the
\* spec.Version it was built with, whatever the pod policy of the spec,
\* and no listing of the pods after the pass makes it the upgrade
\* candidate.
C34_BuiltPodAtSpecVersion ==
    pass.ran =>
        \A i \in Calls("create") :
            pass.eff[i].ok =>
                /\ pods[pass.eff[i].name] = spec.Version
                /\ \A podList \in Listings(pods) :
                      pickOneOldMember(podList, spec.Version) # pass.eff[i].name

====
